---- MODULE Spec2Model ----
(***************************************************************************)
(* The bulk dispatch engine of the cooker pipeline:                        *)
(*   gen : scripts/generate_recipes.mistral.py  (batch job + fallback)     *)
(*   tr  : scripts/generate_recipe_translations.mistral.py                 *)
(*         (batch job per field + fallback, or the sequential loop)        *)
(*   img : scripts/generate_recipe_images.py  (thread pool of workers)     *)
(* The program run is chosen in Init (prog); a run can be followed by a    *)
(* second run over the same input and the files the first run left.        *)
(*                                                                         *)
(* Text is a sequence of tokens: "F" is a code-fence marker (three         *)
(* backticks), "B" two backticks, "N" a newline, "x" any other character.  *)
(***************************************************************************)
EXTENDS Integers, Sequences, FiniteSets, TLC

\* ------------------------------------------------------------------ bounds
\* largest number of lines in the output artifact of a batch job
MaxLines == 2
\* longest duration of one status query (client.batch.jobs.get), in seconds
MaxLatency == 2

\* ------------------------------------------------------- program constants
DefaultPollInterval == 5
SecondsPerMinute == 60

\* ------------------------------------------------------------- input sets
None == "None"
Progs == {"gen", "tr", "img"}
Titles == {"tarte", "soupe"}
\* recipes.csv: the title column (two rows may carry the same title)
RecipeTables == {<<"tarte">>, <<"tarte", "soupe">>, <<"tarte", "tarte">>}
\* --batch-poll-interval (seconds) and --batch-timeout-minutes
PollConfigs == {[poll_interval |-> 0, timeout_minutes |-> 1],
                [poll_interval |-> 20, timeout_minutes |-> 0]}
JobStatuses == {"QUEUED", "RUNNING", "SUCCESS", "FAILED", "CANCELLED", "TIMEOUT_EXCEEDED"}
\* message contents a generator can return
RawContents == {<<>>, <<"N">>, <<"x">>, <<"F", "N", "x", "N", "F">>, <<"F", "N", "N", "F">>}

\* ---------------------------------------------------------- pure functions
\* hashlib.sha256(title).hexdigest(): one digest per title
hash_title(title) == "sha_" \o title

\* os.path.join(output_dir, f"{file_hash}.json")
gen_out_path(file_hash) == "json_recipes/" \o file_hash \o ".json"

GenPaths == {gen_out_path(hash_title(t)) : t \in Titles}

\* tr: a recipe file of the source directory: whether json.load succeeds, and
\* the fields that are not empty after strip()
Unreadable == [readable |-> FALSE, fields |-> {}]
Recipe(fields) == [readable |-> TRUE, fields |-> fields]
SourceDirs == {<<Recipe({"title"})>>,
               <<Recipe({"title"}), Recipe({"description", "text"})>>,
               <<Unreadable, Recipe({"title"})>>,
               <<Recipe({"description", "text"}), Recipe({})>>}
LanguageLists == {<<"fr">>, <<"en">>}

\* sorted(os.listdir(source_dir)): the file name at a position (from 1)
tr_filename(position) ==
  CASE position = 1 -> "a.json"
    [] position = 2 -> "b.json"

\* os.path.join(output_dir, filename)
tr_output_path(position) ==
  CASE tr_filename(position) = "a.json" -> "translated_recipes/a.json"
    [] tr_filename(position) = "b.json" -> "translated_recipes/b.json"

TrPaths == {"translated_recipes/a.json", "translated_recipes/b.json"}

\* img: a row of the table: id and title after str().strip()
Row(id, title) == [id |-> id, title |-> title]
RowTables == {<<Row("r1", "")>>,
              <<Row("r1", ""), Row("r2", "")>>,
              <<Row("r1", ""), Row("r1", "")>>,
              <<Row("", "r1"), Row("", "")>>}
\* recipes.parquet as stored: whether it has an 'id' column, and its rows
\* (a row of a table without 'id' column carries no id)
ParquetTables ==
  [id_column : {TRUE}, rows : RowTables]
    \cup {[id_column |-> FALSE, rows |-> <<Row("", "r1"), Row("", "r1")>>]}
Concurrencies == {1, 2}
RetriesValues == {-1, 0, 2}

\* _worker, line 115
_rid(row) == IF row.id # "" THEN row.id ELSE row.title

\* outdir / f"{rid}.{fmt}"
img_out_path(rid) == "images/" \o rid \o ".jpg"

\* _load_from_parquet, lines 48-59: without 'id' (and 'path') column the id
\* of a row is its index in the table
_load_from_parquet(table) ==
  IF table.id_column THEN table.rows
  ELSE [i \in DOMAIN table.rows |-> Row(ToString(i - 1), table.rows[i].title)]

ImgPaths ==
  UNION {{img_out_path(_rid(_load_from_parquet(t)[i])) :
            i \in {j \in DOMAIN t.rows : _rid(_load_from_parquet(t)[j]) # ""}} :
         t \in ParquetTables}

PathsOf(p) ==
  CASE p = "gen" -> GenPaths
    [] p = "tr" -> TrPaths
    [] p = "img" -> ImgPaths

\* str.strip(): leading and trailing whitespace removed
RECURSIVE LStrip(_)
LStrip(s) == IF s # <<>> /\ Head(s) = "N" THEN LStrip(Tail(s)) ELSE s

RECURSIVE RStrip(_)
RStrip(s) == IF s # <<>> /\ s[Len(s)] = "N" THEN RStrip(SubSeq(s, 1, Len(s) - 1)) ELSE s

Strip(s) == RStrip(LStrip(s))

\* str.find("\n") + 1 : 0 when there is no newline
RECURSIVE FindNewline(_, _)
FindNewline(s, i) ==
  IF i > Len(s) THEN 0 ELSE IF s[i] = "N" THEN i ELSE FindNewline(s, i + 1)

\* str.rfind("\n") + 1 : 0 when there is no newline
RECURSIVE RFindNewline(_, _)
RFindNewline(s, i) ==
  IF i < 1 THEN 0 ELSE IF s[i] = "N" THEN i ELSE RFindNewline(s, i - 1)

\* text[:-1] : the last character dropped (a fence marker keeps two backticks)
DropLastChar(s) ==
  IF s = <<>> THEN s
  ELSE IF s[Len(s)] = "F" THEN SubSeq(s, 1, Len(s) - 1) \o <<"B">>
  ELSE IF s[Len(s)] = "B" THEN SubSeq(s, 1, Len(s) - 1) \o <<"x">>
  ELSE SubSeq(s, 1, Len(s) - 1)

StartsWithFence(s) == s # <<>> /\ Head(s) = "F"
EndsWithFence(s) == s # <<>> /\ s[Len(s)] = "F"

\* the stripping of enclosing code-fence markers
strip_code_fence(text) ==
  LET t1 == IF StartsWithFence(text)
            THEN SubSeq(text, FindNewline(text, 1) + 1, Len(text))
            ELSE text
  IN  IF EndsWithFence(Strip(t1))
      THEN IF RFindNewline(t1, Len(t1)) = 0
           THEN DropLastChar(t1)
           ELSE SubSeq(t1, 1, RFindNewline(t1, Len(t1)) - 1)
      ELSE t1

\* extract_text_from_response_body: the stripped content of the first choice
extract_text_from_response_body(content) == Strip(content)

\* generate_recipe_text: the stripped content of the response, "" when none
generate_recipe_text(content) == Strip(content)

\* ------------------------------------------------------------------ files
\* the content of a file that a run finds already there
OldData == <<"old">>
Absent == [st |-> "absent", data |-> <<>>]
Partial == [st |-> "partial", data |-> <<>>]
Complete(data) == [st |-> "complete", data |-> data]

\* ---------------------------------------------------------------- entries
NoEntry == [index |-> -1, title |-> None, out_path |-> None, file_hash |-> None]

\* main: one RecipeEntry per row of the table
BuildEntries(table) ==
  [i \in 1..Len(table) |->
     [index |-> i - 1,
      title |-> table[i],
      out_path |-> gen_out_path(hash_title(table[i])),
      file_hash |-> hash_title(table[i])]]

Range(s) == {s[i] : i \in DOMAIN s}

\* ------------------------------------------------------- batch output lines
\* a line of the output artifact: blank, not JSON, JSON but no object, an
\* object whose custom_id is no string, or a record with a custom_id that was
\* emitted (shape "record") or not (shape "unknown_id").  A record carries an
\* `error` field or a response with an embedded status code and, possibly, a
\* body with a message content.
HttpErrorFloor == 400
\* embedded status codes of a response: success, redirect, server error
StatusCodes == {200, 302, 500}
RecordLines(ids) ==
  [shape : {"record"}, custom_id : ids, error : {TRUE}, status_code : {200},
   body : {FALSE}, content : {<<>>}]
    \cup [shape : {"record"}, custom_id : ids, error : {FALSE},
          status_code : StatusCodes \ {200},
          body : {TRUE}, content : {<<"x">>}]
    \cup [shape : {"record"}, custom_id : ids, error : {FALSE}, status_code : {200},
          body : {FALSE}, content : {<<>>}]
    \cup [shape : {"record"}, custom_id : ids, error : {FALSE}, status_code : {200},
          body : {TRUE}, content : RawContents]
OtherLines(unknown) ==
  [shape : {"blank", "unparseable", "nonobject", "nonstring_id"}, custom_id : {unknown},
   error : {FALSE}, status_code : {200}, body : {FALSE}, content : {<<>>}]
    \cup [shape : {"unknown_id"}, custom_id : {unknown}, error : {FALSE},
          status_code : {200}, body : {TRUE}, content : {<<"x">>}]
NoLine == [shape |-> None]

\* mutant of RoutedToFallback: every record is taken as a success
RoutedToFallbackNever(line) == FALSE

\* the tests of the line loop that route a record to fallback: an `error`
\* field, a status code of 400 or more, no body object, a blank text
RoutedToFallback(line) ==
  \/ line.error
  \/ line.status_code >= HttpErrorFloor
  \/ ~line.body
  \/ extract_text_from_response_body(line.content) = <<>>

GenUnknownId == "sha_unknown"
TrUnknownId == <<0, <<"title", "xx">>>>

VARIABLES
  prog,             \* the script that is run
  run,              \* "first" or "second" run over the same input
  pc,               \* position of the main thread
  interrupted,      \* a KeyboardInterrupt was raised in this run
  files,            \* output path -> file
  startFiles,       \* files as they were when this run started
  recipes,          \* gen: the title column of recipes.csv
  entries,          \* main: the entries built from the input
  batch,            \* --batch
  poll_interval,    \* --batch-poll-interval
  timeout_minutes,  \* --batch-timeout-minutes
  pending,          \* entries without output at dispatch start
  request_lines,    \* custom_id of every request line of the manifest
  fallback_entries,
  fallback_ids,
  processed_ids,
  job,              \* the last job object returned by the service
  now,              \* seconds since the deadline was computed
  lines_read,       \* output lines consumed so far
  last_line,        \* the output line read last, NoLine outside the line loop
  polls,            \* status queries made by the poll loop so far (without a deadline: whether one was made)
  error_file,       \* what became of the job's error file after the poll loop, None once the fallback runs
  batch_failures,   \* times the handler of the batch path printed a failure in this run
  todo,             \* generate_recipes_single: entries still to visit
  text,             \* text about to be written
  calls,            \* path -> synchronous generation calls of this run
  opens,            \* path -> times the path was opened for writing in this run
  reported,         \* paths an error was printed for in this run
  saved_from_batch, \* custom ids whose artifact was written from a batch record
  missing_ids,      \* <<S>> once the ids without a record were computed, S their set
  fbVisits,         \* entry index -> visits by the fallback executor in this run
  source_dir,       \* tr: the recipe files of the source directory, sorted
  languages,        \* tr: the target language codes
  prepared_entries, \* tr: entries whose input could be read
  translations,     \* tr: position -> result key -> translated text
  pending_keys,     \* tr: position -> result keys without a translation
  needs_fallback,   \* tr: position -> flag
  translated,       \* tr: translate_recipe's result under construction
  keys_left,        \* tr: translate_recipe's fields still to translate
  id_column,        \* img: whether the stored table has an 'id' column
  rows,             \* img: the rows of the recipe table, as loaded
  overwrite,        \* img: --overwrite
  concurrency,      \* img: --concurrency
  retries,          \* img: --retries
  futures,          \* img: row number -> state of its future
  successes,        \* img: counter of main
  skips,            \* img: counter of main
  failures          \* img: list of (rid, err) of main

vars == <<prog, run, pc, interrupted, files, startFiles, recipes, entries, batch,
          poll_interval, timeout_minutes, pending, request_lines,
          fallback_entries, fallback_ids, processed_ids, job, now, lines_read,
          last_line, polls, error_file, batch_failures, todo, text, calls, opens, reported, saved_from_batch, missing_ids, fbVisits,
          source_dir, languages, prepared_entries, translations, pending_keys,
          needs_fallback, translated, keys_left, id_column, rows, overwrite,
          concurrency,
          retries, futures, successes, skips, failures>>

config == <<prog, recipes, source_dir, languages, id_column, rows, batch, poll_interval,
            timeout_minutes, overwrite, concurrency, retries>>
trState == <<prepared_entries, translations, pending_keys, needs_fallback,
             translated, keys_left>>
poolState == <<futures, successes, skips, failures>>
batchState == <<pending, request_lines, fallback_entries, fallback_ids,
                processed_ids, job, now, lines_read, saved_from_batch, missing_ids>>

NoJob == [status |-> None, output_file |-> FALSE]
Jobs == [status : JobStatuses, output_file : BOOLEAN]

\* mutant of exists: the existence check always fails
exists_never(path) == FALSE

\* mutant of exists: only a completely written file counts as existing
exists_complete(path) == files[path].st = "complete"

\* mutant of exists: the check consults the files as they were when the run began
exists_at_start(path) == startFiles[path].st # "absent"

exists(path) == files[path].st # "absent"

\* mutant of pending_map_get: an id that is not found yields the last entry
pending_map_get_default(p, id) ==
  IF p = <<>> THEN NoEntry
  ELSE IF \E k \in DOMAIN p : p[k].file_hash = id
  THEN p[CHOOSE k \in DOMAIN p :
           p[k].file_hash = id /\ \A l \in DOMAIN p : p[l].file_hash = id => l <= k]
  ELSE p[Len(p)]

\* pending_map: the last pending entry carrying the hash, NoEntry when none
RECURSIVE pending_map_get(_, _)
pending_map_get(p, id) ==
  IF p = <<>> THEN NoEntry
  ELSE IF p[Len(p)].file_hash = id THEN p[Len(p)]
  ELSE pending_map_get(SubSeq(p, 1, Len(p) - 1), id)

RunLocalInit ==
  /\ pc = "main"
  /\ interrupted = FALSE
  /\ entries = <<>>
  /\ pending = <<>>
  /\ request_lines = <<>>
  /\ fallback_entries = <<>>
  /\ fallback_ids = {}
  /\ processed_ids = {}
  /\ job = NoJob
  /\ now = 0
  /\ lines_read = 0
  /\ last_line = NoLine
  /\ polls = 0
  /\ error_file = None
  /\ batch_failures = 0
  /\ todo = <<>>
  /\ text = <<>>
  /\ reported = {}
  /\ saved_from_batch = {}
  /\ missing_ids = <<>>
  /\ prepared_entries = <<>>
  /\ translations = <<>>
  /\ pending_keys = <<>>
  /\ needs_fallback = <<>>
  /\ translated = <<>>
  /\ keys_left = <<>>
  /\ futures = <<>>
  /\ successes = 0
  /\ skips = 0
  /\ failures = <<>>

\* the output paths of the items of the input
InputPaths ==
  CASE prog = "gen" -> {gen_out_path(hash_title(recipes[i])) : i \in DOMAIN recipes}
    [] prog = "tr" -> {tr_output_path(i) : i \in DOMAIN source_dir}
    [] prog = "img" -> {img_out_path(_rid(rows[i])) : i \in {j \in DOMAIN rows : _rid(rows[j]) # ""}}

NumItems ==
  CASE prog = "gen" -> Len(recipes)
    [] prog = "tr" -> Len(source_dir)
    [] prog = "img" -> Len(rows)

InitGen ==
  /\ prog = "gen"
  /\ recipes \in RecipeTables
  /\ batch \in BOOLEAN
  /\ \E c \in PollConfigs :
       poll_interval = c.poll_interval /\ timeout_minutes = c.timeout_minutes
  /\ source_dir = <<>> /\ languages = <<>>
  /\ id_column = TRUE /\ rows = <<>>
  /\ overwrite = FALSE /\ concurrency = 0 /\ retries = 0

InitTr ==
  /\ prog = "tr"
  /\ source_dir \in SourceDirs
  /\ languages \in LanguageLists
  /\ batch \in BOOLEAN
  /\ \E c \in PollConfigs :
       poll_interval = c.poll_interval /\ timeout_minutes = c.timeout_minutes
  /\ recipes = <<>>
  /\ id_column = TRUE /\ rows = <<>>
  /\ overwrite = FALSE /\ concurrency = 0 /\ retries = 0

InitImg ==
  /\ prog = "img"
  /\ \E table \in ParquetTables :
       id_column = table.id_column /\ rows = _load_from_parquet(table)
  /\ overwrite \in BOOLEAN
  /\ concurrency \in Concurrencies
  /\ retries \in RetriesValues
  /\ recipes = <<>> /\ source_dir = <<>> /\ languages = <<>>
  /\ batch = FALSE /\ poll_interval = 0 /\ timeout_minutes = 0

Init ==
  /\ prog \in Progs
  /\ run = "first"
  /\ InitGen \/ InitTr \/ InitImg
  /\ files \in [PathsOf(prog) -> {Absent, Complete(OldData)}]
  /\ \A p \in PathsOf(prog) \ InputPaths : files[p] = Absent
  /\ startFiles = files
  /\ calls = [p \in PathsOf(prog) |-> 0]
  /\ opens = [p \in PathsOf(prog) |-> 0]
  /\ fbVisits = [i \in 1..NumItems |-> 0]
  /\ RunLocalInit

\* ------------------------------------------------ generate_recipes.mistral
\* main, lines 414-418: the list handed to generate_recipes_single, if any
RunSingle(list) ==
  IF list # <<>>
  THEN pc' = "single" /\ todo' = list
  ELSE pc' = "done" /\ todo' = <<>>

\* mutant of ReturnPending: the (empty) fallback list is returned
ReturnFallbackEntries ==
  /\ RunSingle(fallback_entries)
  /\ UNCHANGED <<pending, request_lines, fallback_entries, fallback_ids,
                 processed_ids, job, lines_read, saved_from_batch, missing_ids>>
  /\ now' = 0

\* `except Exception: return pending`, then main's fallback
ReturnPending ==
  /\ RunSingle(pending)
  /\ UNCHANGED <<pending, request_lines, fallback_entries, fallback_ids,
                 processed_ids, job, lines_read, saved_from_batch, missing_ids>>
  /\ now' = 0

\* main up to the upload of the manifest: the entries, then either the
\* sequential path or generate_recipes_batch's pending list and request lines
gen_main ==
  /\ prog = "gen" /\ pc = "main"
  /\ entries' = BuildEntries(recipes)
  /\ IF batch
     THEN LET p == SelectSeq(entries', LAMBDA e : ~exists(e.out_path))
          IN  /\ pending' = p
              /\ request_lines' = [i \in 1..Len(p) |-> p[i].file_hash]
              /\ pc' = IF p = <<>> THEN "done" ELSE "upload"
              /\ todo' = <<>>
     ELSE /\ RunSingle(entries')
          /\ UNCHANGED <<pending, request_lines>>
  /\ UNCHANGED <<config, polls, error_file, batch_failures, last_line, trState, poolState, run, interrupted, files, startFiles,
                 fallback_entries, fallback_ids, processed_ids, job, now,
                 lines_read, text, calls, opens, reported, saved_from_batch, missing_ids,
                 fbVisits>>

\* client.files.upload: returns, or raises
gen_upload ==
  /\ prog = "gen" /\ pc = "upload"
  /\ \E ok \in BOOLEAN :
       IF ok
       THEN pc' = "create" /\ UNCHANGED <<batchState, todo>>
       ELSE ReturnPending
  \* `except Exception`: the failure of the batch path is printed
  /\ batch_failures' = batch_failures + (IF pc' # "create" THEN 1 ELSE 0)
  /\ UNCHANGED <<config, polls, error_file, last_line, entries, trState, poolState, run, interrupted, files, startFiles, text, calls,
                 opens, reported, fbVisits>>

\* client.batch.jobs.create, then the deadline
gen_create ==
  /\ prog = "gen" /\ pc = "create"
  /\ \/ \E j \in Jobs :
          /\ job' = j
          /\ now' = 0
          /\ pc' = "poll"
          /\ UNCHANGED <<pending, request_lines, fallback_entries, fallback_ids,
                         processed_ids, lines_read, saved_from_batch, missing_ids, todo>>
     \/ ReturnPending
  \* `except Exception`: the failure of the batch path is printed
  /\ batch_failures' = batch_failures + (IF pc' # "poll" THEN 1 ELSE 0)
  /\ UNCHANGED <<config, polls, error_file, last_line, entries, trState, poolState, run, interrupted, files, startFiles, text, calls,
                 opens, reported, fbVisits>>

\* mutant of Interval: only an interval of zero is replaced
IntervalUnlessZero == IF poll_interval # 0 THEN poll_interval ELSE DefaultPollInterval

\* the wait between two status queries
Interval == IF poll_interval > 0 THEN poll_interval ELSE DefaultPollInterval

Deadline == IF timeout_minutes > 0 THEN timeout_minutes * SecondsPerMinute ELSE 0
\* mutant of TimedOut: a deadline of zero is a deadline like any other
TimedOutAtZero == now >= Deadline

\* mutant of TimedOut: the loop gives up at twice the deadline
TimedOutTwice == Deadline # 0 /\ now >= Deadline + Deadline

TimedOut == Deadline # 0 /\ now >= Deadline
\* mutant of Polling: the loop queries the job whatever its status
PollingAnyStatus == ~TimedOut

\* the condition of the poll loop
Polling == job.status \in {"QUEUED", "RUNNING"} /\ ~TimedOut

\* one iteration of the poll loop: sleep, then client.batch.jobs.get
\* (the clock is read only when a deadline is set)
gen_poll ==
  /\ prog = "gen" /\ pc = "poll"
  /\ Polling
  /\ \/ \E j \in Jobs :
          /\ job' = j
          /\ \E latency \in 0..MaxLatency :
               now' = IF Deadline # 0 THEN now + Interval + latency ELSE now
          /\ pc' = "poll"
          /\ UNCHANGED <<pending, request_lines, fallback_entries, fallback_ids,
                         processed_ids, lines_read, saved_from_batch, missing_ids, todo>>
     \/ ReturnPending
  /\ polls' = IF pc' # "poll" THEN 0 ELSE IF Deadline # 0 THEN polls + 1 ELSE 1
  \* `except Exception`: the failure of the batch path is printed
  /\ batch_failures' = batch_failures + (IF pc' # "poll" THEN 1 ELSE 0)
  /\ UNCHANGED <<config, error_file, last_line, entries, trState, poolState, run, interrupted, files, startFiles, text, calls,
                 opens, reported, fbVisits>>

\* the job has no error file, or its download succeeds, or it raises
ErrorFileOutcomes == {"absent", "logged", "download_failed"}

\* mutant of Consumable: the output is consumed unless the job has failed
ConsumableUnlessFailed(j) ==
  j.status \notin {"FAILED", "CANCELLED", "TIMEOUT_EXCEEDED"} /\ j.output_file

\* mutant of Consumable: the output file reference is not looked at
ConsumableWithoutFile(j) == j.status = "SUCCESS"

\* mutant of Consumable: the status of the job is not looked at
ConsumableAnyStatus(j) == j.output_file

\* the job's output is consumed only on SUCCESS with an output file
Consumable(j) == j.status = "SUCCESS" /\ j.output_file

\* after the loop: give up (return pending) or download the output
gen_resolve ==
  /\ prog = "gen" /\ pc = "poll"
  /\ ~Polling
  /\ polls' = 0
  \* lines 240-248: the error file, when there is one, is downloaded and
  \* printed; a failing download is printed and swallowed
  /\ error_file' \in IF Consumable(job) THEN {None} ELSE ErrorFileOutcomes
  /\ IF ~Consumable(job)
     THEN ReturnPending
     ELSE \/ /\ pc' = "lines"
             /\ now' = 0
             /\ UNCHANGED <<pending, request_lines, fallback_entries,
                            fallback_ids, processed_ids, job, lines_read,
                            saved_from_batch, missing_ids, todo>>
          \/ ReturnPending
  \* `except Exception`: the failure of the batch path is printed
  /\ batch_failures' = batch_failures + (IF Consumable(job) /\ pc' # "lines" THEN 1 ELSE 0)
  /\ UNCHANGED <<config, last_line, entries, trState, poolState, run, interrupted, files, startFiles, text, calls,
                 opens, reported, fbVisits>>

\* mutant of AddFallback: the entry is appended without the fallback_ids guard
AddFallbackAlways(entry) ==
  /\ fallback_entries' = Append(fallback_entries, entry)
  /\ fallback_ids' = fallback_ids \cup {entry.file_hash}

\* lines 279-281 and the like: the entry joins the fallback list once
AddFallback(entry) ==
  IF entry.file_hash \notin fallback_ids
  THEN /\ fallback_entries' = Append(fallback_entries, entry)
       /\ fallback_ids' = fallback_ids \cup {entry.file_hash}
  ELSE UNCHANGED <<fallback_entries, fallback_ids>>

\* one line of the output artifact, up to the opening of the output file
ReadLine(line) ==
  /\ LET entry == pending_map_get(pending, line.custom_id)
         body_text == extract_text_from_response_body(line.content)
         skip == /\ pc' = "lines"
                 /\ UNCHANGED <<fallback_entries, fallback_ids, files, opens,
                                text, reported, todo, now>>
     IN
     /\ lines_read' = lines_read + 1
     /\ last_line' = line
     /\ UNCHANGED <<pending, request_lines, job, saved_from_batch, missing_ids>>
     /\ CASE line.shape \in {"blank", "unparseable"} ->
               skip /\ UNCHANGED processed_ids
          [] line.shape = "nonobject" ->
               \* payload.get raises: the generic handler returns pending
               /\ RunSingle(pending)
               /\ UNCHANGED <<fallback_entries, fallback_ids, files, opens,
                              text, reported, now, processed_ids>>
          [] line.shape = "nonstring_id" ->
               skip /\ UNCHANGED processed_ids
          [] line.shape \in {"record", "unknown_id"} ->
               /\ processed_ids' = processed_ids \cup {line.custom_id}
               /\ IF entry = NoEntry
                  THEN skip
                  ELSE IF RoutedToFallback(line)
                  THEN /\ AddFallback(entry)
                       /\ reported' = reported \cup {entry.out_path}
                       /\ pc' = "lines"
                       /\ UNCHANGED <<files, opens, text, todo, now>>
                  ELSE \/ \* open(entry["out_path"], "w") creates or truncates
                          /\ files' = [files EXCEPT ![entry.out_path] = Partial]
                          /\ opens' = [opens EXCEPT ![entry.out_path] = @ + 1]
                          /\ text' = strip_code_fence(body_text)
                          /\ todo' = <<entry>>
                          /\ pc' = "batch_dump"
                          /\ UNCHANGED <<fallback_entries, fallback_ids,
                                         reported, now>>
                       \/ \* open raises
                          /\ RunSingle(pending)
                          /\ UNCHANGED <<fallback_entries, fallback_ids,
                                         files, opens, text, reported, now>>
  \* `except Exception`: the failure of the batch path is printed
  /\ batch_failures' = batch_failures + (IF pc' \notin {"lines", "batch_dump"} THEN 1 ELSE 0)
  /\ UNCHANGED <<config, polls, error_file, entries, trState, poolState, run, interrupted, startFiles, calls, fbVisits>>

\* the lines of the output artifact, in file order
gen_line ==
  /\ prog = "gen" /\ pc = "lines"
  /\ lines_read < MaxLines
  /\ \E line \in RecordLines(Range(request_lines)) \cup OtherLines(GenUnknownId) :
       ReadLine(line)

\* json.dump into the opened file: completes, or raises part-way
gen_batch_dump ==
  /\ prog = "gen" /\ pc = "batch_dump"
  /\ LET entry == Head(todo) IN
     \/ /\ files' = [files EXCEPT ![entry.out_path] = Complete(text)]
        /\ saved_from_batch' = saved_from_batch \cup {entry.file_hash}
        /\ pc' = "lines"
        /\ todo' = <<>>
     \/ /\ RunSingle(pending)
        /\ UNCHANGED <<files, saved_from_batch>>
  /\ text' = <<>>
  \* `except Exception`: the failure of the batch path is printed
  /\ batch_failures' = batch_failures + (IF pc' # "lines" THEN 1 ELSE 0)
  /\ UNCHANGED <<config, polls, error_file, last_line, entries, trState, poolState, run, interrupted, startFiles, pending, request_lines,
                 fallback_entries, fallback_ids, processed_ids, job, now,
                 lines_read, calls, opens, reported, fbVisits, missing_ids>>

\* mutant of MissingLoop: no entry is added
MissingLoopSkipped(p, fe, fi) == <<fe, fi>>

\* lines 337-340: pending entries without a record join the fallback list
RECURSIVE MissingLoop(_, _, _)
MissingLoop(p, fe, fi) ==
  IF p = <<>> THEN <<fe, fi>>
  ELSE IF Head(p).file_hash \notin processed_ids /\ Head(p).file_hash \notin fi
  THEN MissingLoop(Tail(p), Append(fe, Head(p)), fi \cup {Head(p).file_hash})
  ELSE MissingLoop(Tail(p), fe, fi)

\* end of the output: the missing ids, `return fallback_entries`, main
gen_missing ==
  /\ prog = "gen" /\ pc = "lines"
  /\ LET r == MissingLoop(pending, fallback_entries, fallback_ids) IN
     /\ fallback_entries' = r[1]
     /\ fallback_ids' = r[2]
     /\ missing_ids' = <<r[2] \ fallback_ids>>
     /\ last_line' = NoLine
     /\ RunSingle(r[1])
  /\ UNCHANGED <<config, polls, error_file, batch_failures, entries, trState, poolState, run, interrupted, files, startFiles, pending,
                 request_lines, processed_ids, job, now, lines_read, text,
                 calls, opens, reported, saved_from_batch, fbVisits>>

\* generate_recipes_single: next entry (or none left)
SingleAdvance == todo' = Tail(todo) /\ pc' = IF Tail(todo) = <<>> THEN "done" ELSE "single"

\* generate_recipes_single: the existence check and the first call
single_call ==
  /\ prog = "gen" /\ pc = "single"
  /\ LET entry == Head(todo) IN
     /\ fbVisits' = IF batch THEN [fbVisits EXCEPT ![entry.index + 1] = @ + 1]
                    ELSE fbVisits
     /\ last_line' = NoLine
     /\ error_file' = None
     /\ IF exists(entry.out_path)
        THEN SingleAdvance /\ UNCHANGED <<calls, text, reported>>
        ELSE /\ calls' = [calls EXCEPT ![entry.out_path] = @ + 1]
             /\ \/ \E content \in RawContents :
                     /\ text' = generate_recipe_text(content)
                     /\ pc' = IF text' = <<>> THEN "single_retry" ELSE "single_open"
                     /\ UNCHANGED <<todo, reported>>
                \/ /\ SingleAdvance
                   /\ reported' = reported \cup {entry.out_path}
                   /\ UNCHANGED text
  /\ UNCHANGED <<config, polls, batch_failures, entries, trState, poolState, run, interrupted, files, startFiles, batchState, opens>>

\* the one retry after an empty response
single_retry ==
  /\ prog = "gen" /\ pc = "single_retry"
  /\ LET entry == Head(todo) IN
     /\ calls' = [calls EXCEPT ![entry.out_path] = @ + 1]
     /\ \/ \E content \in RawContents :
             /\ text' = generate_recipe_text(content)
             /\ pc' = "single_open"
             /\ UNCHANGED <<todo, reported>>
        \/ /\ SingleAdvance
           /\ reported' = reported \cup {entry.out_path}
           /\ UNCHANGED text
  /\ UNCHANGED <<config, polls, error_file, batch_failures, last_line, entries, trState, poolState, run, interrupted, files, startFiles, batchState, opens,
                 fbVisits>>

\* open(out_path, "w")
single_open ==
  /\ prog = "gen" /\ pc = "single_open"
  /\ LET entry == Head(todo) IN
     \/ /\ files' = [files EXCEPT ![entry.out_path] = Partial]
        /\ opens' = [opens EXCEPT ![entry.out_path] = @ + 1]
        /\ pc' = "single_dump"
        /\ UNCHANGED <<todo, text, reported>>
     \/ /\ SingleAdvance
        /\ reported' = reported \cup {entry.out_path}
        /\ text' = <<>>
        /\ UNCHANGED <<files, opens>>
  /\ UNCHANGED <<config, polls, error_file, batch_failures, last_line, entries, trState, poolState, run, interrupted, startFiles, batchState, calls, fbVisits>>

\* json.dump into the opened file
single_dump ==
  /\ prog = "gen" /\ pc = "single_dump"
  /\ LET entry == Head(todo) IN
     \/ /\ files' = [files EXCEPT ![entry.out_path] = Complete(text)]
        /\ UNCHANGED reported
     \/ /\ reported' = reported \cup {entry.out_path}
        /\ UNCHANGED files
  /\ SingleAdvance
  /\ text' = <<>>
  /\ UNCHANGED <<config, polls, error_file, batch_failures, last_line, entries, trState, poolState, run, interrupted, startFiles, batchState, calls, opens,
                 fbVisits>>

\* ------------------------------------- generate_recipe_translations.mistral
FieldOrder == <<"title", "description", "text">>

\* the (key_prefix, code) pairs of a recipe, in the order of the two loops
RECURSIVE FieldsOf(_, _, _)
FieldsOf(recipe, code, prefixes) ==
  IF prefixes = <<>> THEN <<>>
  ELSE IF Head(prefixes) \in recipe.fields
  THEN <<<<Head(prefixes), code>>>> \o FieldsOf(recipe, code, Tail(prefixes))
  ELSE FieldsOf(recipe, code, Tail(prefixes))

RECURSIVE FieldKeys(_, _)
FieldKeys(recipe, langs) ==
  IF langs = <<>> THEN <<>>
  ELSE IF Head(langs) = "fr" THEN FieldKeys(recipe, Tail(langs))
  ELSE FieldsOf(recipe, Head(langs), FieldOrder) \o FieldKeys(recipe, Tail(langs))

\* main, lines 584-600: the files without output
TrEntries ==
  LET all == [i \in DOMAIN source_dir |->
                [position |-> i, filename |-> tr_filename(i),
                 output_path |-> tr_output_path(i)]]
  IN  SelectSeq(all, LAMBDA e : ~exists(e.output_path))

\* lines 231-248: an entry is prepared when its input loads and has a field
Preparable(entry) ==
  /\ source_dir[entry.position].readable
  /\ source_dir[entry.position].fields # {}

\* custom_id = f"{position}|{result_key}", one request line per key
RECURSIVE RequestLines(_)
RequestLines(prep) ==
  IF prep = <<>> THEN <<>>
  ELSE LET e == Head(prep)
           keys == FieldKeys(source_dir[e.position], languages)
       IN  [i \in 1..Len(keys) |-> <<e.position, keys[i]>>] \o RequestLines(Tail(prep))

\* translate_field: the coerced (stripped) content of the first choice
translate_field(content) == Strip(content)

\* main / translate_recipes_batch up to the preparation loop
tr_main ==
  /\ prog = "tr" /\ pc = "main"
  /\ entries' = TrEntries
  /\ IF entries' = <<>>
     THEN pc' = "done" /\ todo' = <<>>
     ELSE IF batch
     THEN pc' = "prepare" /\ todo' = <<>>
     ELSE pc' = "tr_next" /\ todo' = entries'
  /\ UNCHANGED <<config, polls, error_file, batch_failures, last_line, trState, poolState, run, interrupted, files, startFiles,
                 batchState, text, calls, opens, reported, fbVisits>>

\* mutant of tr_prepare: the manifest is uploaded even when it has no line
tr_prepare_always_upload ==
  /\ prog = "tr" /\ pc = "prepare"
  /\ LET prep == SelectSeq(entries, Preparable)
         lines == RequestLines(prep)
     IN
     /\ prepared_entries' = prep
     /\ reported' = reported \cup
          {entries[i].output_path : i \in {j \in DOMAIN entries : ~Preparable(entries[j])}}
     /\ translations' = [i \in DOMAIN source_dir |-> <<>>]
     /\ pending_keys' = [i \in DOMAIN source_dir |->
          IF \E k \in DOMAIN prep : prep[k].position = i
          THEN Range(FieldKeys(source_dir[i], languages)) ELSE {}]
     /\ needs_fallback' = [i \in DOMAIN source_dir |-> FALSE]
     /\ request_lines' = lines
     /\ IF prep = <<>> THEN pc' = "done" /\ todo' = <<>>
        ELSE pc' = "upload" /\ todo' = <<>>
  /\ UNCHANGED <<config, polls, error_file, batch_failures, last_line, entries, poolState, run, interrupted, files, startFiles,
                 pending, fallback_entries, fallback_ids, processed_ids, job, now,
                 lines_read, saved_from_batch, missing_ids, text, calls, opens, fbVisits,
                 translated, keys_left>>

\* lines 224-313: the preparation loop and the request lines
tr_prepare ==
  /\ prog = "tr" /\ pc = "prepare"
  /\ LET prep == SelectSeq(entries, Preparable)
         lines == RequestLines(prep)
     IN
     /\ prepared_entries' = prep
     /\ reported' = reported \cup
          {entries[i].output_path : i \in {j \in DOMAIN entries : ~Preparable(entries[j])}}
     /\ translations' = [i \in DOMAIN source_dir |-> <<>>]
     /\ pending_keys' = [i \in DOMAIN source_dir |->
          IF \E k \in DOMAIN prep : prep[k].position = i
          THEN Range(FieldKeys(source_dir[i], languages)) ELSE {}]
     /\ needs_fallback' = [i \in DOMAIN source_dir |-> FALSE]
     /\ request_lines' = lines
     /\ IF prep = <<>> THEN pc' = "done" /\ todo' = <<>>
        ELSE IF lines = <<>> THEN pc' = "tr_write_open" /\ todo' = prep
        ELSE pc' = "upload" /\ todo' = <<>>
  /\ UNCHANGED <<config, polls, error_file, batch_failures, last_line, entries, poolState, run, interrupted, files, startFiles,
                 pending, fallback_entries, fallback_ids, processed_ids, job, now,
                 lines_read, saved_from_batch, missing_ids, text, calls, opens, fbVisits,
                 translated, keys_left>>

\* lines 489-495: the entries flagged for fallback, if any
EnterFallback(nf) ==
  LET fe == SelectSeq(prepared_entries, LAMBDA e : nf[e.position])
  IN  /\ fallback_entries' = fe
      /\ todo' = fe
      /\ pc' = IF fe = <<>> THEN "done" ELSE "tr_next"

AllNeedFallback ==
  [i \in DOMAIN needs_fallback |->
     needs_fallback[i] \/ \E k \in DOMAIN prepared_entries : prepared_entries[k].position = i]

\* `except Exception`: every prepared entry is flagged, then the fallback loop
TrFail ==
  /\ needs_fallback' = AllNeedFallback
  /\ EnterFallback(needs_fallback')
  /\ now' = 0
  /\ UNCHANGED <<pending, request_lines, fallback_ids, processed_ids, job,
                 lines_read, saved_from_batch, missing_ids, prepared_entries, translations,
                 pending_keys, translated, keys_left>>

TrBatchStay ==
  UNCHANGED <<pending, request_lines, fallback_entries, fallback_ids,
              processed_ids, lines_read, saved_from_batch, missing_ids, todo, trState>>

tr_upload ==
  /\ prog = "tr" /\ pc = "upload"
  /\ \/ pc' = "create" /\ TrBatchStay /\ UNCHANGED <<job, now>>
     \/ TrFail
  \* `except Exception`: the failure of the batch path is printed
  /\ batch_failures' = batch_failures + (IF pc' # "create" THEN 1 ELSE 0)
  /\ UNCHANGED <<config, polls, error_file, last_line, entries, poolState, run, interrupted, files, startFiles,
                 text, calls, opens, reported, fbVisits>>

tr_create ==
  /\ prog = "tr" /\ pc = "create"
  /\ \/ \E j \in Jobs :
          job' = j /\ now' = 0 /\ pc' = "poll" /\ TrBatchStay
     \/ TrFail
  \* `except Exception`: the failure of the batch path is printed
  /\ batch_failures' = batch_failures + (IF pc' # "poll" THEN 1 ELSE 0)
  /\ UNCHANGED <<config, polls, error_file, last_line, entries, poolState, run, interrupted, files, startFiles,
                 text, calls, opens, reported, fbVisits>>

tr_poll ==
  /\ prog = "tr" /\ pc = "poll"
  /\ Polling
  /\ \/ \E j \in Jobs :
          /\ job' = j
          /\ \E latency \in 0..MaxLatency :
               now' = IF Deadline # 0 THEN now + Interval + latency ELSE now
          /\ pc' = "poll"
          /\ TrBatchStay
     \/ TrFail
  /\ polls' = IF pc' # "poll" THEN 0 ELSE IF Deadline # 0 THEN polls + 1 ELSE 1
  \* `except Exception`: the failure of the batch path is printed
  /\ batch_failures' = batch_failures + (IF pc' # "poll" THEN 1 ELSE 0)
  /\ UNCHANGED <<config, error_file, last_line, entries, poolState, run, interrupted, files, startFiles,
                 text, calls, opens, reported, fbVisits>>

\* after the loop: flag everything, or download the output
tr_resolve ==
  /\ prog = "tr" /\ pc = "poll"
  /\ ~Polling
  /\ polls' = 0
  \* lines 240-248: the error file, when there is one, is downloaded and
  \* printed; a failing download is printed and swallowed
  /\ error_file' \in IF Consumable(job) THEN {None} ELSE ErrorFileOutcomes
  /\ IF ~Consumable(job)
     THEN TrFail
     ELSE \/ pc' = "lines" /\ now' = 0 /\ TrBatchStay /\ UNCHANGED job
          \/ TrFail
  \* `except Exception`: the failure of the batch path is printed
  /\ batch_failures' = batch_failures + (IF Consumable(job) /\ pc' # "lines" THEN 1 ELSE 0)
  /\ UNCHANGED <<config, last_line, entries, poolState, run, interrupted, files, startFiles,
                 text, calls, opens, reported, fbVisits>>

\* the result keys whose text has its code fence stripped
Normalise(result_key, t) ==
  IF result_key[1] = "text" THEN strip_code_fence(t) ELSE t

\* one line of the output artifact
tr_line ==
  /\ prog = "tr" /\ pc = "lines"
  /\ lines_read < MaxLines
  /\ \E line \in RecordLines(Range(request_lines)) \cup OtherLines(TrUnknownId) :
       LET known == line.custom_id \in Range(request_lines)
           position == line.custom_id[1]
           result_key == line.custom_id[2]
           t == extract_text_from_response_body(line.content)
           skip == UNCHANGED <<trState, reported, fallback_entries, todo>> /\ pc' = "lines"
       IN
       /\ lines_read' = lines_read + 1
       /\ last_line' = line
       /\ CASE line.shape \in {"blank", "unparseable"} ->
                 skip /\ UNCHANGED processed_ids
            [] line.shape = "nonobject" ->
                 /\ needs_fallback' = AllNeedFallback
                 /\ EnterFallback(needs_fallback')
                 /\ UNCHANGED <<processed_ids, prepared_entries, translations,
                                pending_keys, translated, keys_left, reported>>
            [] line.shape = "nonstring_id" ->
                 skip /\ UNCHANGED processed_ids
            [] line.shape \in {"record", "unknown_id"} ->
                 /\ processed_ids' = processed_ids \cup {line.custom_id}
                 /\ pc' = "lines"
                 /\ UNCHANGED <<fallback_entries, todo, prepared_entries,
                                translated, keys_left>>
                 /\ IF ~known
                    THEN UNCHANGED <<translations, pending_keys, needs_fallback, reported>>
                    ELSE IF RoutedToFallback(line)
                    THEN /\ needs_fallback' = [needs_fallback EXCEPT ![position] = TRUE]
                         /\ reported' = reported \cup {tr_output_path(position)}
                         /\ UNCHANGED <<translations, pending_keys>>
                    ELSE /\ translations' = [translations EXCEPT ![position] =
                               (result_key :> Normalise(result_key, t)) @@ @]
                         /\ pending_keys' = [pending_keys EXCEPT ![position] =
                               @ \ {result_key}]
                         /\ UNCHANGED <<needs_fallback, reported>>
  \* `except Exception`: the failure of the batch path is printed
  /\ batch_failures' = batch_failures + (IF pc' # "lines" THEN 1 ELSE 0)
  /\ UNCHANGED <<config, polls, error_file, entries, poolState, run, interrupted, files, startFiles,
                 pending, request_lines, fallback_ids, job, now, saved_from_batch, missing_ids,
                 text, calls, opens, fbVisits>>

\* lines 456-462: missing ids and unresolved keys flag their entry
FlagUnresolved ==
  [i \in DOMAIN needs_fallback |->
     \/ needs_fallback[i]
     \/ \E k \in DOMAIN request_lines :
          request_lines[k][1] = i /\ request_lines[k] \notin processed_ids
     \/ pending_keys[i] # {}]

\* end of the output: the flags, then the entries to write from the batch
tr_finish ==
  /\ prog = "tr" /\ pc = "lines"
  /\ needs_fallback' = FlagUnresolved
  /\ missing_ids' = <<Range(request_lines) \ processed_ids>>
  /\ last_line' = NoLine
  /\ LET w == SelectSeq(prepared_entries, LAMBDA e : ~needs_fallback'[e.position])
     IN  IF w = <<>>
         THEN EnterFallback(needs_fallback')
         ELSE pc' = "tr_write_open" /\ todo' = w /\ UNCHANGED fallback_entries
  /\ UNCHANGED <<config, polls, error_file, batch_failures, entries, poolState, run, interrupted, files, startFiles,
                 pending, request_lines, fallback_ids, processed_ids, job, now,
                 lines_read, saved_from_batch, text, calls, opens, reported,
                 fbVisits, prepared_entries, translations, pending_keys,
                 translated, keys_left>>

\* the write loop moves on; after the last entry, return (no request line
\* was built) or the fallback loop
WriteAdvance ==
  IF Tail(todo) # <<>>
  THEN pc' = "tr_write_open" /\ todo' = Tail(todo) /\ UNCHANGED fallback_entries
  ELSE IF request_lines = <<>>
  THEN pc' = "done" /\ todo' = <<>> /\ UNCHANGED fallback_entries
  ELSE EnterFallback(needs_fallback)

\* lines 305-313 and 464-474: open(entry["output_path"], "w")
tr_write_open ==
  /\ prog = "tr" /\ pc = "tr_write_open"
  /\ LET entry == Head(todo) IN
     \/ /\ files' = [files EXCEPT ![entry.output_path] = Partial]
        /\ opens' = [opens EXCEPT ![entry.output_path] = @ + 1]
        /\ pc' = "tr_write_dump"
        /\ UNCHANGED <<todo, fallback_entries, reported>>
     \/ /\ reported' = reported \cup {entry.output_path}
        /\ WriteAdvance
        /\ UNCHANGED <<files, opens>>
  /\ UNCHANGED <<config, polls, error_file, batch_failures, last_line, entries, poolState, trState, run, interrupted, startFiles,
                 pending, request_lines, fallback_ids, processed_ids, job, now,
                 lines_read, saved_from_batch, missing_ids, text, calls, fbVisits>>

\* json.dump(entry["translations"], f)
tr_write_dump ==
  /\ prog = "tr" /\ pc = "tr_write_dump"
  /\ LET entry == Head(todo) IN
     \/ /\ files' = [files EXCEPT ![entry.output_path] =
                       Complete(translations[entry.position])]
        /\ saved_from_batch' = saved_from_batch \cup {entry.position}
        /\ UNCHANGED reported
     \/ /\ reported' = reported \cup {entry.output_path}
        /\ UNCHANGED <<files, saved_from_batch>>
  /\ WriteAdvance
  /\ UNCHANGED <<config, polls, error_file, batch_failures, last_line, entries, poolState, trState, run, interrupted, startFiles,
                 pending, request_lines, fallback_ids, processed_ids, job, now,
                 lines_read, text, calls, opens, fbVisits, missing_ids>>

\* the sequential and the fallback loop move to the next entry
TrAdvance ==
  /\ todo' = Tail(todo)
  /\ pc' = IF Tail(todo) = <<>> THEN "done" ELSE "tr_next"
  /\ translated' = <<>>
  /\ keys_left' = <<>>

\* head of the fallback loop (lines 495-501) and of main's sequential loop
\* (lines 615-625): the input is loaded and translate_recipe starts
tr_next ==
  /\ prog = "tr" /\ pc = "tr_next"
  /\ LET entry == Head(todo)
         recipe == source_dir[entry.position]
         keys == FieldKeys(recipe, languages)
     IN
     /\ fbVisits' = IF batch THEN [fbVisits EXCEPT ![entry.position] = @ + 1]
                    ELSE fbVisits
     /\ last_line' = NoLine
     /\ error_file' = None
     /\ IF (~batch /\ ~recipe.readable) \/ recipe.fields = {}
        THEN /\ reported' = reported \cup {entry.output_path}
             /\ TrAdvance
        ELSE /\ translated' = <<>>
             /\ keys_left' = keys
             /\ pc' = IF keys = <<>> THEN "tr_open" ELSE "tr_field"
             /\ UNCHANGED <<todo, reported>>
  /\ UNCHANGED <<config, polls, batch_failures, entries, poolState, run, interrupted, files, startFiles,
                 batchState, text, calls, opens, prepared_entries, translations,
                 pending_keys, needs_fallback>>

\* translate_recipe: one translate_field call
tr_field ==
  /\ prog = "tr" /\ pc = "tr_field"
  /\ LET entry == Head(todo)
         result_key == Head(keys_left)
     IN
     /\ calls' = [calls EXCEPT ![entry.output_path] = @ + 1]
     /\ \/ \E content \in RawContents :
             /\ translated' = (result_key :> Normalise(result_key, translate_field(content)))
                                @@ translated
             /\ keys_left' = Tail(keys_left)
             /\ pc' = IF Tail(keys_left) = <<>> THEN "tr_open" ELSE "tr_field"
             /\ UNCHANGED <<todo, reported>>
        \/ /\ reported' = reported \cup {entry.output_path}
           /\ TrAdvance
  /\ UNCHANGED <<config, polls, error_file, batch_failures, last_line, entries, poolState, run, interrupted, files, startFiles,
                 batchState, text, opens, fbVisits, prepared_entries,
                 translations, pending_keys, needs_fallback>>

\* open(entry["output_path"], "w") after translate_recipe
tr_open ==
  /\ prog = "tr" /\ pc = "tr_open"
  /\ LET entry == Head(todo) IN
     \/ /\ files' = [files EXCEPT ![entry.output_path] = Partial]
        /\ opens' = [opens EXCEPT ![entry.output_path] = @ + 1]
        /\ pc' = "tr_dump"
        /\ UNCHANGED <<todo, translated, keys_left, reported>>
     \/ /\ reported' = reported \cup {entry.output_path}
        /\ TrAdvance
        /\ UNCHANGED <<files, opens>>
  /\ UNCHANGED <<config, polls, error_file, batch_failures, last_line, entries, poolState, run, interrupted, startFiles,
                 batchState, text, calls, fbVisits, prepared_entries,
                 translations, pending_keys, needs_fallback>>

\* json.dump(translated, f)
tr_dump ==
  /\ prog = "tr" /\ pc = "tr_dump"
  /\ LET entry == Head(todo) IN
     \/ /\ files' = [files EXCEPT ![entry.output_path] = Complete(translated)]
        /\ UNCHANGED reported
     \/ /\ reported' = reported \cup {entry.output_path}
        /\ UNCHANGED files
  /\ TrAdvance
  /\ UNCHANGED <<config, polls, error_file, batch_failures, last_line, entries, poolState, run, interrupted, startFiles,
                 batchState, text, calls, opens, fbVisits, prepared_entries,
                 translations, pending_keys, needs_fallback>>

\* ------------------------------------------------ generate_recipe_images
ImageData == <<"img">>
\* messages of the exceptions _gen_image_bytes raises
GenErrors == {"timeout", "rate limit"}
Queued == [st |-> "queued", attempt |-> 0, ncalls |-> 0, last_err |-> None, result |-> None]

\* mutant of MaxWorkers: the pool has one thread more
MaxWorkersOneMore == (IF concurrency > 1 THEN concurrency ELSE 1) + 1

\* ThreadPoolExecutor(max_workers=max(1, int(args.concurrency)))
MaxWorkers == IF concurrency > 1 THEN concurrency ELSE 1

Running(f) == {i \in DOMAIN f : f[i].st \in {"gen", "open", "write"}}

\* the value _worker returns
Result(rid, ok, err) == [rid |-> rid, ok |-> ok, err |-> err]
Finished(f, res) == [f EXCEPT !.st = "done", !.result = res]

\* main, lines 200-214: one future per row
img_main ==
  /\ prog = "img" /\ pc = "main"
  /\ futures' = [i \in DOMAIN rows |-> Queued]
  /\ pc' = "collect"
  /\ UNCHANGED <<config, polls, error_file, batch_failures, last_line, entries, trState, run, interrupted, files, startFiles,
                 batchState, todo, text, calls, opens, reported, fbVisits,
                 successes, skips, failures>>

\* a pool thread takes the oldest queued future and runs _worker up to the
\* first attempt: lines 115-125
worker_start(i) ==
  /\ prog = "img" /\ pc \in {"collect", "shutdown"}
  /\ futures[i].st = "queued"
  /\ \A j \in DOMAIN futures : j < i => futures[j].st # "queued"
  /\ Cardinality(Running(futures)) < MaxWorkers
  /\ LET rid == _rid(rows[i]) IN
     futures' = [futures EXCEPT ![i] =
       IF rid = "" THEN Finished(@, Result("<missing-id>", FALSE, "missing id/title"))
       ELSE IF exists(img_out_path(rid)) /\ ~overwrite
       THEN Finished(@, Result(rid, TRUE, "skipped (exists)"))
       ELSE IF retries + 1 <= 0 THEN Finished(@, Result(rid, FALSE, None))
       ELSE [@ EXCEPT !.st = "gen"]]
  /\ UNCHANGED <<config, polls, error_file, batch_failures, last_line, entries, trState, run, pc, interrupted, files, startFiles,
                 batchState, todo, text, calls, opens, reported, fbVisits,
                 successes, skips, failures>>

\* mutant of AttemptFailed: one attempt too many
AttemptFailedOnceMore(f, rid, err) ==
  IF f.attempt + 1 <= retries + 1
  THEN [f EXCEPT !.st = "gen", !.attempt = @ + 1, !.last_err = err]
  ELSE Finished([f EXCEPT !.attempt = @ + 1, !.last_err = err], Result(rid, FALSE, err))

\* mutant of AttemptFailed: the error of the attempt before the last is returned
AttemptFailedStaleError(f, rid, err) ==
  IF f.attempt + 1 < retries + 1
  THEN [f EXCEPT !.st = "gen", !.attempt = @ + 1, !.last_err = err]
  ELSE Finished([f EXCEPT !.attempt = @ + 1, !.last_err = err],
                Result(rid, FALSE, f.last_err))

\* `except Exception`: the attempt failed; the next one, or the failure
AttemptFailed(f, rid, err) ==
  IF f.attempt + 1 < retries + 1
  THEN [f EXCEPT !.st = "gen", !.attempt = @ + 1, !.last_err = err]
  ELSE Finished([f EXCEPT !.attempt = @ + 1, !.last_err = err], Result(rid, FALSE, err))

\* _gen_image_bytes: the image, or an exception
worker_gen(i) ==
  /\ prog = "img" /\ pc \in {"collect", "shutdown"}
  /\ futures[i].st = "gen"
  /\ LET rid == _rid(rows[i]) IN
     /\ calls' = [calls EXCEPT ![img_out_path(rid)] = @ + 1]
     /\ \/ futures' = [futures EXCEPT ![i].st = "open", ![i].ncalls = @ + 1]
        \/ \E e \in GenErrors :
             futures' = [futures EXCEPT ![i] =
                           AttemptFailed([@ EXCEPT !.ncalls = @ + 1], rid, e)]
  /\ UNCHANGED <<config, polls, error_file, batch_failures, last_line, entries, trState, run, pc, interrupted, files, startFiles,
                 batchState, todo, text, opens, reported, fbVisits,
                 successes, skips, failures>>

\* _save_image: path.open("wb")
worker_open(i) ==
  /\ prog = "img" /\ pc \in {"collect", "shutdown"}
  /\ futures[i].st = "open"
  /\ LET rid == _rid(rows[i]) IN
     \/ /\ files' = [files EXCEPT ![img_out_path(rid)] = Partial]
        /\ opens' = [opens EXCEPT ![img_out_path(rid)] = @ + 1]
        /\ futures' = [futures EXCEPT ![i].st = "write"]
     \/ /\ futures' = [futures EXCEPT ![i] = AttemptFailed(@, rid, "save failed")]
        /\ UNCHANGED <<files, opens>>
  /\ UNCHANGED <<config, polls, error_file, batch_failures, last_line, entries, trState, run, pc, interrupted, startFiles,
                 batchState, todo, text, calls, reported, fbVisits,
                 successes, skips, failures>>

\* mutant of worker_write: no return after the save, the loop goes on
worker_write_no_return(i) ==
  /\ prog = "img" /\ pc \in {"collect", "shutdown"}
  /\ futures[i].st = "write"
  /\ LET rid == _rid(rows[i]) IN
     \/ /\ files' = [files EXCEPT ![img_out_path(rid)] = Complete(ImageData)]
        /\ futures' = [futures EXCEPT ![i] =
             IF @.attempt + 1 < retries + 1
             THEN [@ EXCEPT !.st = "gen", !.attempt = @ + 1]
             ELSE Finished([@ EXCEPT !.attempt = @ + 1], Result(rid, TRUE, None))]
     \/ /\ futures' = [futures EXCEPT ![i] = AttemptFailed(@, rid, "save failed")]
        /\ UNCHANGED files
  /\ UNCHANGED <<config, polls, error_file, batch_failures, last_line, entries, trState, run, pc, interrupted, startFiles,
                 batchState, todo, text, calls, opens, reported, fbVisits,
                 successes, skips, failures>>

\* _save_image: f.write(data), then `return (rid, True, None)`
worker_write(i) ==
  /\ prog = "img" /\ pc \in {"collect", "shutdown"}
  /\ futures[i].st = "write"
  /\ LET rid == _rid(rows[i]) IN
     \/ /\ files' = [files EXCEPT ![img_out_path(rid)] = Complete(ImageData)]
        /\ futures' = [futures EXCEPT ![i] = Finished(@, Result(rid, TRUE, None))]
     \/ /\ futures' = [futures EXCEPT ![i] = AttemptFailed(@, rid, "save failed")]
        /\ UNCHANGED files
  /\ UNCHANGED <<config, polls, error_file, batch_failures, last_line, entries, trState, run, pc, interrupted, startFiles,
                 batchState, todo, text, calls, opens, reported, fbVisits,
                 successes, skips, failures>>

\* mutant of img_collect: a skipped row is consumed without being counted
img_collect_skip_lost(i) ==
  /\ prog = "img" /\ pc = "collect"
  /\ futures[i].st = "done"
  /\ LET r == futures[i].result IN
     /\ futures' = [futures EXCEPT ![i].st = "counted"]
     /\ IF r.ok /\ r.err = None
        THEN successes' = successes + 1 /\ UNCHANGED <<skips, failures>>
        ELSE IF r.ok /\ r.err = "skipped (exists)"
        THEN UNCHANGED <<successes, skips, failures>>
        ELSE failures' = Append(failures, <<r.rid, r.err>>)
             /\ UNCHANGED <<successes, skips>>
  /\ UNCHANGED <<config, polls, error_file, batch_failures, last_line, entries, trState, run, pc, interrupted, files, startFiles,
                 batchState, todo, text, calls, opens, reported, fbVisits>>

\* main, lines 215-224: as_completed hands a finished future to the counters
img_collect(i) ==
  /\ prog = "img" /\ pc = "collect"
  /\ futures[i].st = "done"
  /\ LET r == futures[i].result IN
     /\ futures' = [futures EXCEPT ![i].st = "counted"]
     /\ IF r.ok /\ r.err = None
        THEN successes' = successes + 1 /\ UNCHANGED <<skips, failures>>
        ELSE IF r.ok /\ r.err = "skipped (exists)"
        THEN skips' = skips + 1 /\ UNCHANGED <<successes, failures>>
        ELSE failures' = Append(failures, <<r.rid, r.err>>)
             /\ UNCHANGED <<successes, skips>>
  /\ UNCHANGED <<config, polls, error_file, batch_failures, last_line, entries, trState, run, pc, interrupted, files, startFiles,
                 batchState, todo, text, calls, opens, reported, fbVisits>>

\* main, line 226: every future was consumed, the pool is left
img_done ==
  /\ prog = "img" /\ pc = "collect"
  /\ \A i \in DOMAIN futures : futures[i].st = "counted"
  /\ pc' = "done"
  /\ UNCHANGED <<config, polls, error_file, batch_failures, last_line, entries, trState, poolState, run, interrupted, files,
                 startFiles, batchState, todo, text, calls, opens, reported,
                 fbVisits>>

\* KeyboardInterrupt in main: the `with` block's exit is
\* ThreadPoolExecutor.shutdown(wait=True), which lets the queued futures run
img_interrupt ==
  /\ prog = "img" /\ pc \in {"main", "collect"}
  /\ interrupted' = TRUE
  /\ pc' = IF pc = "main" THEN "exit" ELSE "shutdown"
  /\ UNCHANGED <<config, polls, error_file, batch_failures, last_line, entries, trState, poolState, run, files, startFiles,
                 batchState, todo, text, calls, opens, reported, fbVisits>>

\* shutdown returns when no future is queued or running; the exception ends main
img_exit ==
  /\ prog = "img" /\ pc = "shutdown"
  /\ \A i \in DOMAIN futures : futures[i].st \in {"done", "counted"}
  /\ pc' = "exit"
  /\ UNCHANGED <<config, polls, error_file, batch_failures, last_line, entries, trState, poolState, run, interrupted, files,
                 startFiles, batchState, todo, text, calls, opens, reported,
                 fbVisits>>

\* ------------------------------------------------------- run-level actions
\* KeyboardInterrupt in the main thread of the batch and sequential scripts:
\* sys.exit(1) in the handlers, the traceback elsewhere
Interrupt ==
  /\ prog \in {"gen", "tr"}
  /\ pc \notin {"done", "exit"}
  /\ interrupted' = TRUE
  /\ pc' = "exit"
  /\ UNCHANGED <<config, polls, error_file, batch_failures, last_line, entries, trState, poolState, run, files, startFiles,
                 batchState, todo, text, calls, opens, reported, fbVisits>>

\* the pipeline is run again over the same input and the files left behind
Rerun ==
  /\ pc \in {"done", "exit"}
  /\ run = "first"
  /\ run' = "second"
  /\ startFiles' = files
  /\ calls' = [p \in PathsOf(prog) |-> 0]
  /\ opens' = [p \in PathsOf(prog) |-> 0]
  /\ fbVisits' = [i \in DOMAIN fbVisits |-> 0]
  /\ pc' = "main"
  /\ interrupted' = FALSE
  /\ entries' = <<>>
  /\ pending' = <<>>
  /\ request_lines' = <<>>
  /\ fallback_entries' = <<>>
  /\ fallback_ids' = {}
  /\ processed_ids' = {}
  /\ job' = NoJob
  /\ now' = 0
  /\ lines_read' = 0
  /\ last_line' = NoLine
  /\ polls' = 0
  /\ error_file' = None
  /\ batch_failures' = 0
  /\ todo' = <<>>
  /\ text' = <<>>
  /\ reported' = {}
  /\ saved_from_batch' = {}
  /\ missing_ids' = <<>>
  /\ prepared_entries' = <<>>
  /\ translations' = <<>>
  /\ pending_keys' = <<>>
  /\ needs_fallback' = <<>>
  /\ translated' = <<>>
  /\ keys_left' = <<>>
  /\ futures' = <<>>
  /\ successes' = 0
  /\ skips' = 0
  /\ failures' = <<>>
  /\ UNCHANGED <<config, files>>

Next ==
  \/ gen_main
  \/ gen_upload
  \/ gen_create
  \/ gen_poll
  \/ gen_resolve
  \/ gen_line
  \/ gen_batch_dump
  \/ gen_missing
  \/ single_call
  \/ single_retry
  \/ single_open
  \/ single_dump
  \/ tr_main
  \/ tr_prepare
  \/ tr_upload
  \/ tr_create
  \/ tr_poll
  \/ tr_resolve
  \/ tr_line
  \/ tr_finish
  \/ tr_write_open
  \/ tr_write_dump
  \/ tr_next
  \/ tr_field
  \/ tr_open
  \/ tr_dump
  \/ img_main
  \/ \E i \in DOMAIN futures : worker_start(i)
  \/ \E i \in DOMAIN futures : worker_gen(i)
  \/ \E i \in DOMAIN futures : worker_open(i)
  \/ \E i \in DOMAIN futures : worker_write(i)
  \/ \E i \in DOMAIN futures : img_collect(i)
  \/ img_done
  \/ img_interrupt
  \/ img_exit
  \/ Interrupt
  \/ Rerun

Spec == Init /\ [][Next]_vars

\* the steps of the main thread of the batch scripts that depend on nothing
\* but the program itself: once the poll loop's condition is false, the code
\* after the loop runs
AfterPollLoop == gen_resolve \/ tr_resolve

\* one run of a batch script started with --batch
BatchInit == Init /\ prog \in {"gen", "tr"} /\ batch

BatchNext ==
  \/ gen_main
  \/ gen_upload
  \/ gen_create
  \/ gen_poll
  \/ gen_resolve
  \/ gen_line
  \/ gen_batch_dump
  \/ gen_missing
  \/ single_call
  \/ single_retry
  \/ single_open
  \/ single_dump
  \/ tr_main
  \/ tr_prepare
  \/ tr_upload
  \/ tr_create
  \/ tr_poll
  \/ tr_resolve
  \/ tr_line
  \/ tr_finish
  \/ tr_write_open
  \/ tr_write_dump
  \/ tr_next
  \/ tr_field
  \/ tr_open
  \/ tr_dump
  \/ Interrupt

BatchSpec == BatchInit /\ [][BatchNext]_vars

\* that run under the scheduling of a sequential process
BatchFairSpec == BatchInit /\ [][BatchNext]_vars /\ WF_vars(AfterPollLoop)

\* ---------------------------------------------------------- the poll loop
\* --batch-poll-interval and --batch-timeout-minutes: any number is accepted
PollIntervals == {-1, 0, 3}
PollTimeouts == {0, 1}

\* one run of a batch script started with --batch, over these settings
PollInit ==
  /\ prog \in {"gen", "tr"}
  /\ run = "first"
  /\ batch = TRUE
  /\ poll_interval \in PollIntervals
  /\ timeout_minutes \in PollTimeouts
  /\ IF prog = "gen"
     THEN recipes \in RecipeTables /\ source_dir = <<>> /\ languages = <<>>
     ELSE recipes = <<>> /\ source_dir \in SourceDirs /\ languages \in LanguageLists
  /\ id_column = TRUE /\ rows = <<>>
  /\ overwrite = FALSE /\ concurrency = 0 /\ retries = 0
  /\ files \in [PathsOf(prog) -> {Absent, Complete(OldData)}]
  /\ \A p \in PathsOf(prog) \ InputPaths : files[p] = Absent
  /\ startFiles = files
  /\ calls = [p \in PathsOf(prog) |-> 0]
  /\ opens = [p \in PathsOf(prog) |-> 0]
  /\ fbVisits = [i \in 1..NumItems |-> 0]
  /\ RunLocalInit

PollSpec == PollInit /\ [][BatchNext]_vars

\* ------------------------------------------------------- the worker pool
\* --concurrency: any integer is accepted
PoolConcurrencies == {-1, 0, 1, 2}

\* one run of generate_recipe_images
PoolInit ==
  /\ prog = "img"
  /\ run = "first"
  /\ \E table \in ParquetTables :
       id_column = table.id_column /\ rows = _load_from_parquet(table)
  /\ overwrite \in BOOLEAN
  /\ concurrency \in PoolConcurrencies
  /\ retries \in RetriesValues
  /\ recipes = <<>> /\ source_dir = <<>> /\ languages = <<>>
  /\ batch = FALSE /\ poll_interval = 0 /\ timeout_minutes = 0
  /\ files \in [ImgPaths -> {Absent, Complete(OldData)}]
  /\ \A p \in ImgPaths \ InputPaths : files[p] = Absent
  /\ startFiles = files
  /\ calls = [p \in ImgPaths |-> 0]
  /\ opens = [p \in ImgPaths |-> 0]
  /\ fbVisits = [i \in 1..NumItems |-> 0]
  /\ RunLocalInit

PoolNext ==
  \/ img_main
  \/ \E i \in DOMAIN futures : worker_start(i)
  \/ \E i \in DOMAIN futures : worker_gen(i)
  \/ \E i \in DOMAIN futures : worker_open(i)
  \/ \E i \in DOMAIN futures : worker_write(i)
  \/ \E i \in DOMAIN futures : img_collect(i)
  \/ img_done
  \/ img_interrupt
  \/ img_exit

PoolSpec == PoolInit /\ [][PoolNext]_vars

\* ------------------------------------------------------------ Scenario A
\* recipes.csv with ten rows of distinct titles, none written yet
ScenarioRecipes == <<"r01", "r02", "r03", "r04", "r05", "r06", "r07", "r08", "r09", "r10">>
ScenarioIds == {hash_title(ScenarioRecipes[i]) : i \in DOMAIN ScenarioRecipes}
ScenarioPaths == {gen_out_path(id) : id \in ScenarioIds}

\* a result record with a usable body, and one that carries an error
SuccessRecord(id) ==
  [shape |-> "record", custom_id |-> id, error |-> FALSE, status_code |-> 200,
   body |-> TRUE, content |-> <<"F", "N", "x", "N", "F">>]
ErrorRecord(id) ==
  [shape |-> "record", custom_id |-> id, error |-> TRUE, status_code |-> 200,
   body |-> FALSE, content |-> <<>>]

\* the output file of the job, in file order: seven success records, two
\* error records, and no record for the tenth request
ScenarioOutput ==
  <<SuccessRecord("sha_r01"), ErrorRecord("sha_r08"), SuccessRecord("sha_r02"),
    SuccessRecord("sha_r03"), SuccessRecord("sha_r04"), ErrorRecord("sha_r09"),
    SuccessRecord("sha_r05"), SuccessRecord("sha_r06"), SuccessRecord("sha_r07")>>

ScenarioInit ==
  /\ prog = "gen"
  /\ run = "first"
  /\ recipes = ScenarioRecipes
  /\ batch = TRUE
  /\ \E c \in {k \in PollConfigs : k.timeout_minutes = 0} :
       poll_interval = c.poll_interval /\ timeout_minutes = c.timeout_minutes
  /\ source_dir = <<>> /\ languages = <<>>
  /\ id_column = TRUE /\ rows = <<>>
  /\ overwrite = FALSE /\ concurrency = 0 /\ retries = 0
  /\ files = [p \in ScenarioPaths |-> Absent]
  /\ startFiles = files
  /\ calls = [p \in ScenarioPaths |-> 0]
  /\ opens = [p \in ScenarioPaths |-> 0]
  /\ fbVisits = [i \in 1..NumItems |-> 0]
  /\ RunLocalInit

\* the manifest is uploaded and the job created, queued
scenario_upload == gen_upload /\ pc' = "create"
scenario_create == gen_create /\ pc' = "poll" /\ job'.status = "QUEUED"

\* the job runs, then succeeds with an output file, which is downloaded
scenario_poll ==
  /\ gen_poll
  /\ pc' = "poll"
  /\ job'.status \in {"RUNNING", "SUCCESS"}
  /\ Consumable(job') \/ Polling'
scenario_resolve == gen_resolve /\ pc' = "lines"

\* the lines of ScenarioOutput, one after the other, then the end of the file
scenario_line ==
  /\ prog = "gen" /\ pc = "lines"
  /\ lines_read < Len(ScenarioOutput)
  /\ ReadLine(ScenarioOutput[lines_read + 1])
scenario_missing == lines_read = Len(ScenarioOutput) /\ gen_missing

\* a fallback call returns a recipe at once, or raises
scenario_call ==
  /\ single_call
  /\ pc' # "single_retry"
  /\ text' \in {<<>>, generate_recipe_text(<<"x">>)}

ScenarioNext ==
  \/ gen_main
  \/ scenario_upload
  \/ scenario_create
  \/ scenario_poll
  \/ scenario_resolve
  \/ scenario_line
  \/ gen_batch_dump
  \/ scenario_missing
  \/ scenario_call
  \/ single_open
  \/ single_dump

ScenarioSpec == ScenarioInit /\ [][ScenarioNext]_vars

\* ============================================================ properties
TypeOK == \A p \in DOMAIN files : files[p].st \in {"absent", "partial", "complete"}

\* the output path of input item i
ItemPath(i) ==
  CASE prog = "gen" -> gen_out_path(hash_title(recipes[i]))
    [] prog = "tr" -> tr_output_path(i)
    [] prog = "img" -> img_out_path(_rid(rows[i]))

Items == IF prog = "img" THEN {i \in DOMAIN rows : _rid(rows[i]) # ""} ELSE 1..NumItems

PendingAtStart(i) == startFiles[ItemPath(i)].st = "absent"
Succeeded(i) == files[ItemPath(i)].st = "complete"
Failed(i) == ItemPath(i) \in reported /\ files[ItemPath(i)].st # "complete"

\* the artifact of item i was written from the batch job's results
SavedFromBatch(i) ==
  IF prog = "gen" THEN hash_title(recipes[i]) \in saved_from_batch
  ELSE i \in saved_from_batch

\* a batch run (batch path, then fallback) that ended without an interrupt
BatchRunDone == prog \in {"gen", "tr"} /\ batch /\ pc = "done"

UniqueIdentity(i) == \A j \in DOMAIN recipes : recipes[j] = recipes[i] => j = i
PreparableAt(i) == source_dir[i].readable /\ source_dir[i].fields # {}

\* C1: when a batch run ends, every item that was pending at dispatch start
\* is either Succeeded (its complete artifact is at its path) or Failed (an
\* error was reported for it and its artifact is not persisted).
C1_ExactlyOneOutcome ==
  BatchRunDone =>
    \A i \in Items : PendingAtStart(i) =>
      /\ Succeeded(i) \/ Failed(i)
      /\ ~(Succeeded(i) /\ Failed(i))

\* C2, as claimed: when a batch run ends, every item that was pending and is
\* not Succeeded after the batch path, whatever the reason (an item that could
\* not be prepared included), was visited by the fallback executor exactly
\* once.
C2_FallbackOnceOriginal ==
  BatchRunDone =>
    \A i \in Items : (PendingAtStart(i) /\ ~SavedFromBatch(i)) => fbVisits[i] = 1

\* C2, amended: when a batch run ends, every pending item that reached the
\* batch path (for translations: was prepared), whose identity no other row
\* shares and whose artifact was not written from the batch, was visited by
\* the fallback executor exactly once; the only exception is a translation
\* whose fields were all resolved by the batch and whose write failed, which
\* is reported and not visited.  An item that could not be prepared is never
\* visited, and neither is one written from the batch by translate_recipes_batch.
C2_FallbackCoverage ==
  BatchRunDone =>
    /\ prog = "gen" =>
         \A i \in Items :
           (PendingAtStart(i) /\ UniqueIdentity(i) /\ ~SavedFromBatch(i))
             => fbVisits[i] = 1
    /\ prog = "tr" =>
         \A i \in Items : PendingAtStart(i) =>
           IF ~PreparableAt(i) THEN fbVisits[i] = 0
           ELSE IF SavedFromBatch(i) THEN fbVisits[i] = 0
           ELSE \/ fbVisits[i] = 1
                \/ /\ fbVisits[i] = 0
                   /\ pending_keys[i] = {}
                   /\ ItemPath(i) \in reported

\* C2 witness: a batch run whose job output was parsed has ended, and an item
\* left without artifact by the batch was visited once by the fallback, which
\* called the generator for it.
C2_Witness ==
  /\ BatchRunDone
  /\ lines_read >= 1
  /\ \E i \in Items :
       /\ PendingAtStart(i) /\ ~SavedFromBatch(i)
       /\ fbVisits[i] = 1
       /\ calls[ItemPath(i)] >= 1

\* C3: once generate_recipes_batch has parsed the job output, the emitted
\* custom ids are partitioned into the ids written from the batch, the ids
\* routed to fallback by a result record, and the ids without record.
C3_Partition ==
  (prog = "gen" /\ missing_ids # <<>>) =>
    LET success == saved_from_batch
        missing == missing_ids[1]
        error == fallback_ids \ missing
    IN  /\ success \cap error = {}
        /\ success \cap missing = {}
        /\ error \cap missing = {}
        /\ success \cup error \cup missing = Range(request_lines)

\* the result keys item i requires
RequiredKeys(i) == Range(FieldKeys(source_dir[i], languages))

\* C4: in translate_recipes_batch, an item whose artifact was written in this
\* run has a non-empty translation for every sub-field it requires.
C4_NoPartialSuccess ==
  (prog = "tr" /\ batch) =>
    \A i \in Items :
      (PendingAtStart(i) /\ files[ItemPath(i)].st = "complete") =>
        \A k \in RequiredKeys(i) :
          /\ k \in DOMAIN files[ItemPath(i)].data
          /\ files[ItemPath(i)].data[k] # <<>>

NoGenerationCalls ==
  /\ \A p \in DOMAIN calls : calls[p] = 0
  /\ request_lines = <<>>

\* C5, as claimed: whatever the first run did, the second run makes no
\* generation call: no request line is emitted and no synchronous call made.
C5_SecondRunNoCallsOriginal ==
  (prog \in {"gen", "tr"} /\ run = "second") => NoGenerationCalls

\* C5, amended: when the first run left a file at the output path of every
\* item (and overwrite is not requested), the second run makes no generation
\* call.
C5_SecondRunNoCalls ==
  (/\ run = "second"
   /\ ~overwrite
   /\ \A i \in Items : startFiles[ItemPath(i)].st # "absent")
    => NoGenerationCalls

\* C5 witness: a second run has ended over outputs that all exist, one of
\* them written by the first run.
C5_Witness ==
  /\ run = "second" /\ pc = "done" /\ ~overwrite
  /\ \A i \in Items : startFiles[ItemPath(i)].st # "absent"
  /\ \E i \in Items : startFiles[ItemPath(i)] \notin {Absent, Partial, Complete(OldData)}

\* the request lines of item i
RequestLinesOf(i) ==
  {k \in DOMAIN request_lines :
     IF prog = "gen" THEN request_lines[k] = hash_title(recipes[i])
     ELSE request_lines[k][1] = i}

SkippedResult(i) == Result(_rid(rows[i]), TRUE, "skipped (exists)")

\* C6: for an item whose output existed before the run (overwrite not
\* requested), no request line is emitted, no synchronous call is made, the
\* file stays as it was, and in the pool the row's result is "skipped" and is
\* counted in skips, not in successes or failures.
C6_SkipExisting ==
  ~overwrite =>
    /\ \A i \in Items : ~PendingAtStart(i) =>
         /\ prog \in {"gen", "tr"} => RequestLinesOf(i) = {}
         /\ calls[ItemPath(i)] = 0
         /\ files[ItemPath(i)] = startFiles[ItemPath(i)]
         /\ (prog = "img" /\ futures # <<>> /\ futures[i].st \in {"done", "counted"})
              => futures[i].result = SkippedResult(i)
    /\ (prog = "img" /\ pc = "done") =>
         /\ skips = Cardinality({i \in Items : futures[i].result = SkippedResult(i)})
         /\ skips >= Cardinality({i \in Items : ~PendingAtStart(i)})
         /\ successes + Len(failures) = Len(rows) - skips

\* C6 witness: a run has ended in which one item existed before the run and
\* another one was generated.
C6_Witness ==
  /\ ~overwrite /\ pc = "done"
  /\ \E i, j \in Items :
       /\ ~PendingAtStart(i)
       /\ PendingAtStart(j) /\ calls[ItemPath(j)] >= 1 /\ Succeeded(j)

\* C7: once the interrupt was raised, no generation call is issued in that
\* run, on any of the three paths.
C7_NoCallAfterInterrupt ==
  [][(interrupted /\ run' = run) => calls' = calls]_vars

\* C8: the final output path of an item never holds a partially written
\* artifact.
C8_NoPartialArtifact ==
  \A p \in DOMAIN files : files[p].st # "partial"

\* C9: within a run an output path is opened for writing at most once, and
\* an artifact that exists is never overwritten, truncated or removed unless
\* overwrite was requested.
C9_AtMostOnceWrite ==
  [][/\ run' = run => \A p \in DOMAIN opens : opens'[p] <= 1
     /\ ~overwrite =>
          \A p \in DOMAIN files : files[p].st = "complete" => files'[p] = files[p]]_vars

\* C10: on the fallback path, a text that is still blank after the retry is
\* never handed to the writer: the item is Failed and nothing is persisted.
C10_BlankIsFailed ==
  /\ (prog = "gen" /\ batch /\ pc \in {"single_open", "single_dump"}) => text # <<>>
  /\ (prog = "tr" /\ batch /\ pc \in {"tr_field", "tr_open", "tr_dump"}) =>
       \A k \in DOMAIN translated : k[1] # "text" => translated[k] # <<>>

\* a record whose line is malformed: no usable body, or an embedded status
\* code outside 2xx
MalformedRecord(line) ==
  /\ line.shape = "record"
  /\ ~line.error
  /\ ~line.body \/ line.status_code < 200 \/ line.status_code > 299

\* the item of a record was routed to fallback
Routed(line) ==
  IF prog = "gen" THEN line.custom_id \in fallback_ids
  ELSE needs_fallback[line.custom_id[1]]

\* nothing of the record is being persisted or kept for persisting
NothingPersisted(line) ==
  IF prog = "gen" THEN pc # "batch_dump"
  ELSE line.custom_id[2] \notin DOMAIN translations[line.custom_id[1]]

\* C11: after an output line that is unparseable, has no usable body or
\* carries a status code outside 2xx, the item of the line is routed to
\* fallback, nothing is persisted from the line, and the line loop goes on.
C11_MalformedRouted ==
  (~interrupted /\ last_line # NoLine) =>
    /\ last_line.shape = "unparseable" => pc = "lines"
    /\ MalformedRecord(last_line) =>
         /\ Routed(last_line)
         /\ NothingPersisted(last_line)
         /\ pc = "lines"

\* the upload of the manifest or the creation of the job raised
SubmissionFailed ==
  /\ prog = "gen"
  /\ pc \in {"upload", "create"}
  /\ pc' \notin {"upload", "create", "poll", "exit"}

\* C12: when the upload of the manifest or the creation of the job raises in
\* generate_recipes_batch, the whole pending list is handed to the fallback,
\* nothing was submitted or written from the batch, the failure is printed
\* once in the run, and the run goes on with the fallback.
C12_SubmissionFailure ==
  /\ [][SubmissionFailed =>
          /\ pc' = "single"
          /\ todo' = pending /\ pending # <<>>
          /\ job' = NoJob
          /\ saved_from_batch' = {} /\ files' = files
          /\ batch_failures' = 1]_vars
  /\ [](batch_failures <= 1)

\* C12 witness: the submission failed, the fallback ran over the pending list
\* and generated an item.
C12_Witness ==
  /\ prog = "gen" /\ batch /\ pc = "done"
  /\ job = NoJob /\ batch_failures = 1
  /\ \A i \in Items : PendingAtStart(i) => fbVisits[i] = 1
  /\ \E i \in Items : PendingAtStart(i) /\ calls[ItemPath(i)] >= 1 /\ Succeeded(i)

\* the job that was polled last did not succeed, or has no output file
JobUnusable == job # NoJob /\ (job.status # "SUCCESS" \/ ~job.output_file)

\* the poll loop was left with such a job
PollEndedWithoutSuccess ==
  /\ prog \in {"gen", "tr"}
  /\ pc = "poll" /\ ~Polling /\ pc' \notin {"poll", "exit"}
  /\ JobUnusable

\* C13: when polling ends with a job that did not succeed (failed, cancelled,
\* or still queued or running at the deadline), every pending item (every
\* prepared entry of the translations) is handed to the fallback and nothing is
\* written from the batch in that run; whether the error file is absent,
\* printed or impossible to download, the outcome is the same and the batch
\* path does not fail.
C13_JobNotSucceeded ==
  /\ [][PollEndedWithoutSuccess =>
          /\ error_file' \in ErrorFileOutcomes
          /\ IF prog = "gen"
             THEN pc' = "single" /\ todo' = pending
             ELSE pc' = "tr_next" /\ todo' = prepared_entries
          /\ files' = files
          /\ batch_failures' = batch_failures]_vars
  /\ [](JobUnusable => (saved_from_batch = {} /\ lines_read = 0))

\* C13 witness: the job failed, its error file could not be downloaded, and
\* the fallback is about to start over every pending item.
C13_Witness ==
  /\ job # NoJob /\ job.status \in {"FAILED", "CANCELLED", "TIMEOUT_EXCEEDED"}
  /\ error_file = "download_failed"
  /\ \/ prog = "gen" /\ pc = "single" /\ todo = pending /\ Len(pending) >= 2
     \/ prog = "tr" /\ pc = "tr_next" /\ todo = prepared_entries /\ Len(todo) >= 2
  /\ batch_failures = 0

\* the emitted ids for which the output held no record
WithoutRecord == Range(request_lines) \ processed_ids

\* the item of an emitted id is in the fallback set
InFallbackSet(id) ==
  IF prog = "gen"
  THEN /\ id \in fallback_ids
       /\ \E k \in DOMAIN fallback_entries : fallback_entries[k].file_hash = id
  ELSE needs_fallback[id[1]]

\* the record of an emitted id was taken from the batch
ResolvedFromBatch(id) ==
  IF prog = "gen" THEN id \in saved_from_batch
  ELSE id[2] \in DOMAIN translations[id[1]]

\* C14: once the output of a succeeded job was parsed, every emitted id
\* without a record has its item in the fallback set, the ids reported as
\* missing are exactly the ids without a record, and no id whose record was
\* taken from the batch is among them.
C14_MissingCorrelation ==
  (prog \in {"gen", "tr"} /\ missing_ids # <<>>) =>
    /\ \A id \in WithoutRecord : InFallbackSet(id)
    /\ missing_ids[1] = WithoutRecord
    /\ \A id \in Range(request_lines) : ResolvedFromBatch(id) => id \notin missing_ids[1]

\* C14 witness: the output was parsed, one emitted id had no record and
\* another one was resolved from the batch.
C14_Witness ==
  /\ prog \in {"gen", "tr"} /\ missing_ids # <<>>
  /\ missing_ids[1] # {}
  /\ \E id \in Range(request_lines) : ResolvedFromBatch(id)

\* a write of the batch path failed: the dump of generate_recipes_batch, or
\* the open or the dump of translate_recipes_batch's write loop
BatchWriteFailed ==
  /\ pc' # "exit"
  /\ \/ prog = "gen" /\ pc = "batch_dump"
     \/ prog = "tr" /\ pc = "tr_write_open" /\ pc' # "tr_write_dump"
     \/ prog = "tr" /\ pc = "tr_write_dump"
  /\ files'[IF prog = "gen" THEN Head(todo).out_path ELSE Head(todo).output_path].st
       # "complete"

\* C15: when the write of one item fails in the batch path, that item is
\* reported as failed, no other file changes, and the batch path goes on with
\* the remaining items: the remaining output lines are still read, so that a
\* success they hold is persisted from the batch.
C15_LocalIOIsolation ==
  [][BatchWriteFailed =>
       LET path == IF prog = "gen" THEN Head(todo).out_path ELSE Head(todo).output_path
       IN  /\ path \in reported'
           /\ \A q \in DOMAIN files : q # path => files'[q] = files[q]
           /\ prog = "gen" => pc' = "lines"
           /\ batch_failures' = batch_failures]_vars

FailedRows ==
  {i \in DOMAIN futures :
     /\ futures[i].st \in {"done", "counted"}
     /\ _rid(rows[i]) # ""
     /\ ~futures[i].result.ok}

\* C17: a row whose attempts all failed was tried exactly retries + 1 times
\* (one generation call per attempt), its result is the failure with the
\* message of the last attempt, main lists it in failures, and every other
\* row of the queue is processed and counted all the same.
C17_ExhaustedRetries ==
  prog = "img" =>
    /\ \A i \in FailedRows :
         /\ futures[i].attempt = retries + 1
         /\ futures[i].ncalls = retries + 1
         /\ futures[i].result = Result(_rid(rows[i]), FALSE, futures[i].last_err)
    /\ pc = "done" =>
         /\ \A i \in FailedRows :
              \E k \in DOMAIN failures :
                failures[k] = <<_rid(rows[i]), futures[i].last_err>>
         /\ \A i \in DOMAIN futures : futures[i].st = "counted"
         /\ successes + skips + Len(failures) = Len(rows)

\* C17 witness: with retries = 2 and one worker, the first row failed three
\* times, the last time with "rate limit", and the second row, queued behind
\* it, was generated.
C17_Witness ==
  /\ prog = "img" /\ pc = "done" /\ retries = 2 /\ concurrency = 1
  /\ Len(rows) = 2
  /\ 1 \in FailedRows
  /\ futures[1].ncalls = 3 /\ futures[1].last_err = "rate limit"
  /\ failures = <<<<_rid(rows[1]), "rate limit">>>>
  /\ futures[2].result = Result(_rid(rows[2]), TRUE, None)
  /\ successes = 1

\* the largest number of status queries: the deadline over the interval, rounded up
MaxPolls == (Deadline + Interval - 1) \div Interval

\* the poll loop is at its head with a deadline set
PollingWithDeadline == prog \in {"gen", "tr"} /\ pc = "poll" /\ Deadline # 0

\* the deadline has passed and the job is still queued or running: the loop
\* makes no further query and every pending item (prepared entry) is handed
\* to the fallback
TimeoutStops ==
  [][(PollingWithDeadline /\ TimedOut /\ job.status \in {"QUEUED", "RUNNING"}
        /\ pc' # "exit")
       => /\ polls' = 0 /\ job' = job
          /\ IF prog = "gen"
             THEN pc' = "single" /\ todo' = pending
             ELSE pc' = "tr_next" /\ todo' = prepared_entries]_vars

\* C18, as claimed: with a positive timeout the poll loop makes at most about
\* timeout/interval status queries (12 for one minute and 5 s), then hands
\* every pending item to the fallback, and the time waited never exceeds the
\* deadline by more than one poll interval.
C18_PollTimeoutOriginal ==
  /\ [](PollingWithDeadline => (polls <= MaxPolls /\ now <= Deadline + Interval))
  /\ TimeoutStops

\* C18, amended: with a positive timeout the poll loop makes at most
\* timeout/interval (rounded up) status queries, then hands every pending item
\* to the fallback, and the time waited stays below the deadline plus one poll
\* interval plus the duration of one status query.
C18_PollTimeout ==
  /\ [](PollingWithDeadline =>
          (polls <= MaxPolls /\ now < Deadline + Interval + MaxLatency))
  /\ TimeoutStops

\* C18 witness: one minute of timeout and the default interval of 5 s; the
\* job is still running after 12 queries and the deadline has passed.
C18_Witness ==
  /\ PollingWithDeadline /\ TimedOut
  /\ job.status = "RUNNING"
  /\ polls = 12 /\ Interval = 5 /\ Deadline = 60

\* the poll loop is at its head with no deadline and a job still queued or running
WaitingWithoutDeadline ==
  /\ prog \in {"gen", "tr"} /\ pc = "poll"
  /\ timeout_minutes = 0
  /\ job.status \in {"QUEUED", "RUNNING"}

\* C19: with timeout_minutes = 0 the poll loop never times out: while the job
\* is queued or running the loop condition holds and the next query is made,
\* however many were made before, so the loop is left (other than by an
\* exception or an interrupt) only with a status that is neither queued nor
\* running; and once such a status was polled the loop is left.
C19_NoDeadline ==
  /\ [](timeout_minutes = 0 => ~TimedOut)
  /\ [](WaitingWithoutDeadline =>
          /\ Polling
          /\ ENABLED (gen_poll \/ tr_poll)
          /\ ~ENABLED (gen_resolve \/ tr_resolve))
  /\ [][(WaitingWithoutDeadline /\ pc' \notin {"poll", "exit"})
          => batch_failures' = batch_failures + 1]_vars
  /\ [][(prog \in {"gen", "tr"} /\ pc = "poll" /\ timeout_minutes = 0
           /\ pc' \notin {"poll", "exit"} /\ batch_failures' = batch_failures)
          => job.status \notin {"QUEUED", "RUNNING"}]_vars
  /\ ((prog \in {"gen", "tr"} /\ pc = "poll" /\ timeout_minutes = 0
         /\ job.status \notin {"QUEUED", "RUNNING"})
        ~> (pc # "poll"))

\* C19 witness: without deadline, a status query of the poll loop has
\* returned a terminal status and the code after the loop is about to run.
C19_Witness ==
  /\ prog \in {"gen", "tr"} /\ timeout_minutes = 0
  /\ pc = "poll" /\ polls > 0
  /\ job.status = "FAILED"
  /\ ENABLED AfterPollLoop

\* Scenario A: the requests by what the job output holds for them
RecordedOk ==
  {ScenarioOutput[k].custom_id :
     k \in {n \in DOMAIN ScenarioOutput : ~ScenarioOutput[n].error}}
RecordedError ==
  {ScenarioOutput[k].custom_id :
     k \in {n \in DOMAIN ScenarioOutput : ScenarioOutput[n].error}}
Unrecorded == ScenarioIds \ (RecordedOk \cup RecordedError)

\* ten pending items; success records for 7, error records for 2, none for 1
ScenarioA ==
  /\ prog = "gen" /\ batch /\ recipes = ScenarioRecipes
  /\ \A i \in Items : PendingAtStart(i)
  /\ Cardinality(Items) = 10
  /\ Cardinality(RecordedOk) = 7
  /\ Cardinality(RecordedError) = 2
  /\ Cardinality(Unrecorded) = 1

\* generate_recipes_batch has returned and the whole output was processed
OutputProcessed ==
  /\ pc \in {"single", "single_retry", "single_open", "single_dump", "done"}
  /\ job.status = "SUCCESS"
  /\ batch_failures = 0

\* every item the fallback visited has its artifact
FallbackSucceeded == \A i \in Items : fbVisits[i] > 0 => Succeeded(i)

\* C20, as claimed: in Scenario A 9 items succeed via the batch and 3 go to
\* fallback; in the end at most 10 items are Succeeded and none is Failed if
\* every fallback call succeeds.
C20_ScenarioAOriginal ==
  ScenarioA =>
    /\ OutputProcessed =>
         /\ Cardinality(saved_from_batch) = 9
         /\ Len(fallback_entries) = 3
    /\ pc = "done" =>
         /\ Cardinality({i \in Items : Succeeded(i)}) <= 10
         /\ FallbackSucceeded => \A i \in Items : ~Failed(i)

\* C20, amended: in Scenario A never more than the 7 items with a success
\* record are written from the batch; once the whole output was processed,
\* exactly these 7 are written from the batch and exactly the 3 others (the 2
\* with an error record, the 1 without record) go to fallback; in the end at
\* most 10 items are Succeeded, and if every item the fallback visited got its
\* artifact then all 10 are Succeeded and none is Failed.
C20_ScenarioA ==
  ScenarioA =>
    /\ saved_from_batch \subseteq RecordedOk
    /\ OutputProcessed =>
         /\ saved_from_batch = RecordedOk
         /\ Cardinality(saved_from_batch) = 7
         /\ Len(fallback_entries) = 3
         /\ {fallback_entries[k].file_hash : k \in DOMAIN fallback_entries}
              = RecordedError \cup Unrecorded
         /\ \A i \in Items :
              fbVisits[i] <= (IF SavedFromBatch(i) THEN 0 ELSE 1)
    /\ pc = "done" =>
         /\ Cardinality({i \in Items : Succeeded(i)}) <= 10
         /\ \A i \in Items : OutputProcessed => fbVisits[i] = (IF SavedFromBatch(i) THEN 0 ELSE 1)
         /\ FallbackSucceeded =>
              \A i \in Items : Succeeded(i) /\ ~Failed(i)

\* C20 witness: Scenario A has run to its end: 7 artifacts come from the
\* batch, 3 from fallback calls, and all 10 items are Succeeded.
C20_Witness ==
  /\ ScenarioA /\ OutputProcessed /\ pc = "done"
  /\ Cardinality(saved_from_batch) = 7
  /\ Cardinality({i \in Items : fbVisits[i] = 1 /\ calls[ItemPath(i)] = 1}) = 3
  /\ \A i \in Items : Succeeded(i)

\* a synchronous call is made for a task the batch resolved as success: a
\* recipe whose artifact was written from the batch, or a sub-field whose
\* translation the batch delivered
CallForResolvedTask ==
  /\ batch
  /\ \/ /\ prog = "gen" /\ pc \in {"single", "single_retry"}
        /\ calls'[Head(todo).out_path] > calls[Head(todo).out_path]
        /\ Head(todo).file_hash \in saved_from_batch
     \/ /\ prog = "tr" /\ pc = "tr_field"
        /\ calls'[Head(todo).output_path] > calls[Head(todo).output_path]
        /\ Head(keys_left) \in DOMAIN translations[Head(todo).position]

\* C21: the fallback path never makes a synchronous call for an item or a
\* sub-field whose batch result was resolved as success in the same run.
C21_NoDoubleProcessing == [][~CallForResolvedTask]_vars

\* the pending items (gen) or the prepared entry and key (tr) a custom id
\* maps back to
OwnersOf(id) ==
  IF prog = "gen"
  THEN {k \in DOMAIN pending : pending[k].file_hash = id}
  ELSE {k \in DOMAIN prepared_entries :
          /\ prepared_entries[k].position = id[1]
          /\ id[2] \in Range(FieldKeys(source_dir[id[1]], languages))}

\* C22: within one batch job no two request lines carry the same custom id,
\* and every custom id maps back to exactly one pending item (one prepared
\* entry and one of its result keys), whatever the input.
C22_UniqueCorrelationIds ==
  (prog \in {"gen", "tr"} /\ batch) =>
    /\ \A m, n \in DOMAIN request_lines :
         request_lines[m] = request_lines[n] => m = n
    /\ \A n \in DOMAIN request_lines :
         Cardinality(OwnersOf(request_lines[n])) = 1

\* C23: in the worker pool no two workers are at the same time generating
\* for or writing to the same output path, whatever the table.
C23_NoConcurrentWrite ==
  prog = "img" =>
    \A i, j \in Running(futures) :
      img_out_path(_rid(rows[i])) = img_out_path(_rid(rows[j])) => i = j

\* rows i and j of the stored table have the same content (without 'id'
\* column a row's content is its title)
SameRowContent(i, j) ==
  /\ rows[i].title = rows[j].title
  /\ id_column => rows[i].id = rows[j].id

\* C24: the identity of an item, and with it its output location, is a
\* function of the item's content only: in every run and under either
\* strategy of the recipe generation an entry's hash and path are those of
\* its title, whatever its index; a translation's path is that of its file
\* name; and two rows of the image table with the same content are given the
\* same identity by the pool's workers, whatever their position.
C24_IdentityDeterminism ==
  /\ prog = "gen" =>
       \A i \in DOMAIN entries :
         /\ entries[i].title = recipes[i]
         /\ entries[i].file_hash = hash_title(recipes[i])
         /\ entries[i].out_path = gen_out_path(hash_title(recipes[i]))
         /\ \A j \in DOMAIN entries :
              recipes[i] = recipes[j] => entries[i].out_path = entries[j].out_path
  /\ prog = "tr" =>
       \A k \in DOMAIN entries :
         entries[k].output_path = tr_output_path(entries[k].position)
  /\ prog = "img" =>
       \A i, j \in DOMAIN futures :
         (/\ futures[i].st \in {"done", "counted"}
          /\ futures[j].st \in {"done", "counted"}
          /\ SameRowContent(i, j))
           => futures[i].result.rid = futures[j].result.rid

\* what the batch path persists for a raw message content: the recipe text
\* of generate_recipes_batch, the value of a result key of
\* translate_recipes_batch
BatchText(raw) == strip_code_fence(extract_text_from_response_body(raw))
BatchTranslation(result_key, raw) ==
  Normalise(result_key, extract_text_from_response_body(raw))

\* C25: what the fallback path persists for a raw text returned by the
\* generator is what the batch path persists for the same raw text: the
\* recipe text written by generate_recipes_single, and every translation
\* stored by translate_recipe.
C25_FallbackEquivalence ==
  /\ [][(prog = "gen" /\ batch /\ pc = "single_dump"
           /\ files'[Head(todo).out_path].st = "complete")
          => \A raw \in RawContents :
               generate_recipe_text(raw) = text
                 => files'[Head(todo).out_path].data = BatchText(raw)]_vars
  /\ [][(prog = "tr" /\ batch /\ pc = "tr_field" /\ keys_left' # keys_left /\ pc' # "exit"
           /\ Head(keys_left) \in DOMAIN translated')
          => \E raw \in RawContents :
               translated'[Head(keys_left)] = BatchTranslation(Head(keys_left), raw)]_vars

\* the futures main has consumed
Counted == {i \in DOMAIN futures : futures[i].st = "counted"}

\* C26: the counters of the pool run change only where main consumes a
\* completed future, by exactly one count per future, and never in a worker;
\* at every moment generated + skipped + failed is the number of futures
\* consumed, so when the run ends it is the number of rows and every row was
\* classified exactly once.
C26_PoolAccounting ==
  /\ [](prog = "img" =>
          /\ successes + skips + Len(failures) = Cardinality(Counted)
          /\ pc = "done" =>
               /\ Counted = DOMAIN rows
               /\ successes + skips + Len(failures) = Len(rows)
               /\ successes = Cardinality({i \in DOMAIN rows :
                    futures[i].result.ok /\ futures[i].result.err = None})
               /\ skips = Cardinality({i \in DOMAIN rows :
                    futures[i].result.ok /\ futures[i].result.err # None})
               /\ Len(failures) = Cardinality({i \in DOMAIN rows :
                    ~futures[i].result.ok}))
  /\ [][(prog = "img" /\ run' = run
           /\ <<successes, skips, failures>>' # <<successes, skips, failures>>)
          => /\ pc = "collect"
             /\ \E i \in DOMAIN futures :
                  /\ futures[i].st = "done"
                  /\ futures' = [futures EXCEPT ![i].st = "counted"]
             /\ successes' + skips' + Len(failures') = successes + skips + Len(failures) + 1]_vars

\* C26 witness: a pool of two workers has ended a run over two rows, one
\* generated and one failed.
C26_Witness ==
  /\ prog = "img" /\ pc = "done" /\ concurrency = 2
  /\ Len(rows) = 2
  /\ successes = 1 /\ skips = 0 /\ Len(failures) = 1

\* the rows with a generation call in flight, and the rows whose output was
\* to be generated when the run started
InFlight == {i \in DOMAIN futures : futures[i].st = "gen"}
PendingRows ==
  {i \in DOMAIN rows :
     /\ _rid(rows[i]) # ""
     /\ overwrite \/ startFiles[img_out_path(_rid(rows[i]))].st = "absent"}
Min(a, b) == IF a < b THEN a ELSE b
Max(a, b) == IF a > b THEN a ELSE b

\* C27, as claimed: at every moment the number of rows with a generation
\* call in flight is at most min(concurrency, pending_count), for every
\* value of --concurrency, zero and negative values included (no call at
\* all when that minimum is zero or less).
C27_PoolBoundOriginal ==
  prog = "img" =>
    Cardinality(InFlight) <= Max(0, Min(concurrency, Cardinality(PendingRows)))

\* C27, amended: the pool has max(1, concurrency) threads (one thread for a
\* concurrency of zero or less), so at every moment the number of rows a
\* worker is busy with is at most min(max(1, concurrency), number of rows),
\* and the number of rows with a generation call in flight is at most
\* min(max(1, concurrency), pending_count).
C27_PoolBound ==
  prog = "img" =>
    /\ Cardinality(Running(futures)) <= Min(Max(1, concurrency), Len(rows))
    /\ Cardinality(InFlight) <= Min(Max(1, concurrency), Cardinality(PendingRows))

\* C27 witness: with a concurrency of zero a generation call is in flight
\* while another row waits in the queue.
C27_Witness ==
  /\ prog = "img" /\ concurrency = 0
  /\ Cardinality(PendingRows) = 2
  /\ Cardinality(InFlight) = 1
  /\ \E i \in DOMAIN futures : futures[i].st = "queued"

\* C28: a pool worker returns at the first attempt in which generation and
\* save both succeed: every attempt before it failed, the number of
\* generation calls for the row is the index of that attempt, and no call is
\* made for the row once its result is there.
C28_StopAtFirstSuccess ==
  /\ [](prog = "img" =>
          \A i \in DOMAIN futures :
            /\ futures[i].attempt > 0 => futures[i].last_err # None
            /\ (futures[i].st \in {"done", "counted"}
                  /\ futures[i].result.ok /\ futures[i].result.err = None)
                 => /\ futures[i].ncalls = futures[i].attempt + 1
                    /\ futures[i].ncalls <= retries + 1)
  /\ [][(prog = "img" /\ run' = run)
          => \A i \in DOMAIN futures :
               futures[i].st \in {"done", "counted"}
                 => futures'[i].ncalls = futures[i].ncalls]_vars

\* C28 witness: a row was generated at its second attempt, after two calls.
C28_Witness ==
  /\ prog = "img"
  /\ \E i \in DOMAIN futures :
       /\ futures[i].st \in {"done", "counted"}
       /\ futures[i].result.ok /\ futures[i].result.err = None
       /\ futures[i].attempt = 1 /\ futures[i].ncalls = 2

\* the job as last observed is queued or running
JobNotTerminal == job.status \in {"QUEUED", "RUNNING"}

\* C29: while the last observed status of the job is queued or running, no
\* output line was read, no result was correlated and no artifact was written
\* from the batch; after a timeout (the status still queued or running) this
\* stays so to the end of the run: the job output is never read.
C29_ResolveAfterTerminal ==
  /\ []((prog \in {"gen", "tr"} /\ JobNotTerminal) =>
          /\ pc \notin {"lines", "batch_dump", "tr_write_open", "tr_write_dump"}
          /\ lines_read = 0
          /\ last_line = NoLine
          /\ processed_ids = {}
          /\ saved_from_batch = {}
          /\ missing_ids = <<>>
          /\ prog = "tr" =>
               \A i \in DOMAIN translations : translations[i] = <<>>)
  /\ [][(prog \in {"gen", "tr"} /\ pc = "poll" /\ JobNotTerminal /\ TimedOut
           /\ pc' # "exit")
          => /\ job' = job
             /\ pc' \in {"single", "tr_next"}]_vars

\* C29 witness: the poll loop has queried the status and reached its deadline
\* on a job that is still running and already lists an output file.
C29_Witness ==
  /\ prog \in {"gen", "tr"} /\ pc = "poll" /\ polls > 0
  /\ TimedOut /\ job.status = "RUNNING" /\ job.output_file
  /\ ENABLED AfterPollLoop

\* a step that creates the remote job, or fails to
CreateStep == pc = "create" /\ pc' # "create"

\* a step in which a status query returned
StatusQuery == pc = "poll" /\ pc' = "poll"

\* C30: a batch dispatch walks (prepare,) upload, create, poll once and never back, so
\* at most one job is created and none is submitted again after a failure or
\* a timeout; the job as seen by the program changes only with the value
\* returned by the creation or by a status query; and a status query is made
\* only while the last observed status is queued or running.
C30_OneJobPerDispatch ==
  [][/\ prog \in {"gen", "tr"}
     /\ pc' = "main" => pc = "main"
     /\ pc' = "prepare" => pc \in {"main", "prepare"}
     /\ pc' = "upload" => pc \in {"main", "prepare", "upload"}
     /\ pc' = "create" => pc \in {"upload", "create"}
     /\ pc' = "poll" => pc \in {"create", "poll"}
     /\ CreateStep => job = NoJob
     /\ job' # job => (CreateStep /\ pc' = "poll") \/ StatusQuery
     /\ StatusQuery => job.status \in {"QUEUED", "RUNNING"}]_vars

\* C30 witness: the one job of the dispatch was seen to fail and the run
\* ended after the fallback made a single call for an item.
C30_Witness ==
  /\ prog \in {"gen", "tr"} /\ pc = "done"
  /\ job.status = "FAILED"
  /\ batch_failures = 0
  /\ \E i \in Items : fbVisits[i] = 1

\* the artifact at path was written from a success record of the batch
PersistedFromBatch(path) ==
  \E h \in saved_from_batch : gen_out_path(h) = path

\* a synchronous call is made for the artifact at path
SynchronousCall(path) == calls'[path] > calls[path]

\* C31: in recipe generation no synchronous call is made for an artifact that
\* was persisted from a batch success record of the same run, whichever way
\* its entry reached the list handed to the fallback.
C31_NoRegeneration ==
  [][prog = "gen" =>
       \A path \in DOMAIN calls :
         PersistedFromBatch(path) => ~SynchronousCall(path)]_vars

\* C31 witness: an item was saved from the batch, a later error line for the
\* same id put it in the fallback list, and the fallback visited it without
\* making a call.
C31_Witness ==
  /\ prog = "gen" /\ batch /\ pc = "done"
  /\ \E i \in Items :
       /\ SavedFromBatch(i)
       /\ hash_title(recipes[i]) \in fallback_ids
       /\ fbVisits[i] = 1
       /\ calls[ItemPath(i)] = 0
       /\ Succeeded(i)

\* the step that downloads the output of the job to read its lines
ConsumeStep == prog \in {"gen", "tr"} /\ pc = "poll" /\ pc' = "lines"

\* every pending entry (prepared entry of the translations) went through the
\* fallback
AllPendingInFallback ==
  IF prog = "gen"
  THEN \A k \in DOMAIN pending : fbVisits[pending[k].index + 1] >= 1
  ELSE \A k \in DOMAIN prepared_entries :
         fbVisits[prepared_entries[k].position] >= 1

\* C32: the output of the job is downloaded only when the last observed
\* status is exactly SUCCESS and the job names an output file; with any other
\* status (TIMEOUT_EXCEEDED included) or without an output file nothing is
\* read or written from the batch and a run that ends has taken every pending
\* item through the fallback.
C32_ConsumeOnlyOnSuccess ==
  /\ [][ConsumeStep => (job.status = "SUCCESS" /\ job.output_file)]_vars
  /\ []((prog \in {"gen", "tr"} /\ JobUnusable) =>
          /\ pc \notin {"lines", "batch_dump"}
          /\ lines_read = 0
          /\ processed_ids = {}
          /\ saved_from_batch = {}
          /\ pc = "done" => AllPendingInFallback)

\* C32 witness: the job succeeded without an output file and the run ended
\* after the fallback generated a pending item.
C32_Witness ==
  /\ prog \in {"gen", "tr"} /\ pc = "done"
  /\ job.status = "SUCCESS" /\ ~job.output_file
  /\ (pending # <<>> \/ prepared_entries # <<>>)
  /\ AllPendingInFallback
  /\ \E i \in Items : PendingAtStart(i) /\ fbVisits[i] = 1 /\ Succeeded(i)

\* translate_recipes_batch prepared entries and built no request line
NoRequestLine ==
  /\ prog = "tr" /\ batch /\ pc \notin {"main", "prepare"}
  /\ prepared_entries # <<>> /\ request_lines = <<>>

\* the artifact holds the source fields and no translated key
SourceFieldsOnly(path) == files[path] = Complete(<<>>)

\* C33: when the prepared entries of translate_recipes_batch yield no request
\* line, the run only writes: no manifest is uploaded, no job is created, no
\* synchronous call is made and no entry is flagged for or taken through the
\* fallback; whatever is written holds the source fields only, and at the end
\* every prepared entry has such an artifact unless its write raised (which
\* is reported).
C33_NoRequestLine ==
  NoRequestLine =>
    /\ pc \in {"tr_write_open", "tr_write_dump", "done", "exit"}
    /\ job = NoJob
    /\ batch_failures = 0
    /\ \A p \in DOMAIN calls : calls[p] = 0
    /\ \A i \in DOMAIN fbVisits : fbVisits[i] = 0
    /\ \A i \in DOMAIN needs_fallback : ~needs_fallback[i]
    /\ fallback_entries = <<>>
    /\ \A k \in DOMAIN prepared_entries :
         LET path == prepared_entries[k].output_path IN
         /\ files[path].st = "complete" => SourceFieldsOnly(path)
         /\ pc = "done" => (SourceFieldsOnly(path) \/ path \in reported)

\* C33 witness: two entries were prepared for the source language alone and
\* the run ended with both artifacts written.
C33_Witness ==
  /\ NoRequestLine /\ pc = "done"
  /\ Len(prepared_entries) = 2
  /\ \A k \in DOMAIN prepared_entries :
       /\ SourceFieldsOnly(prepared_entries[k].output_path)
       /\ opens[prepared_entries[k].output_path] = 1

\* a step of the line loop over a line whose correlation id is not a string
\* or is not an id of this dispatch
ForeignLineStep ==
  /\ prog \in {"gen", "tr"} /\ pc = "lines"
  /\ lines_read' = lines_read + 1
  /\ last_line'.shape \in {"unknown_id", "nonstring_id"}

\* C34: reading a line whose correlation id is not a string, or is a string
\* that this dispatch did not emit, writes no artifact, opens no file, makes
\* no call, reports no item, leaves the fallback list, the fallback ids and
\* the flags as they were, leaves the stored translations and the set of
\* emitted ids seen so far as they were, and goes on with the next line.
C34_ForeignLineFrame ==
  [][ForeignLineStep =>
       /\ pc' = "lines"
       /\ UNCHANGED <<files, opens, calls, reported, saved_from_batch>>
       /\ UNCHANGED <<fallback_entries, fallback_ids, needs_fallback>>
       /\ UNCHANGED <<translations, pending_keys, prepared_entries, pending, todo>>
       /\ UNCHANGED <<fbVisits, batch_failures, job>>
       /\ processed_ids' \cap Range(request_lines)
            = processed_ids \cap Range(request_lines)]_vars

\* C34 witness: after an item was saved from the batch, a line with an id of
\* no request was read and the loop is at the next line.
C34_Witness ==
  /\ prog \in {"gen", "tr"} /\ pc = "lines"
  /\ lines_read = 2
  /\ last_line.shape = "unknown_id"
  /\ last_line.custom_id \in processed_ids
  /\ last_line.custom_id \notin Range(request_lines)
  /\ fallback_entries = <<>>
  /\ \E id \in Range(request_lines) : ResolvedFromBatch(id)

\* C35: the wait of the poll loop is strictly positive: it is the configured
\* interval when that is positive and 5 seconds when it is zero or negative;
\* a status query is made only after one such wait, so under a deadline (when
\* the clock is read) a query moves the clock on by at least the wait and the
\* time elapsed at the head of the loop is at least the number of queries
\* made times the wait.
C35_PositiveWait ==
  /\ []((prog \in {"gen", "tr"} /\ batch) =>
          /\ Interval > 0
          /\ poll_interval > 0 => Interval = poll_interval
          /\ poll_interval <= 0 => Interval = DefaultPollInterval)
  /\ [](PollingWithDeadline => now >= polls * Interval)
  /\ [][(PollingWithDeadline /\ StatusQuery) =>
          (polls' = polls + 1 /\ now' >= now + Interval /\ now' > now)]_vars

\* C35 witness: with a negative interval and a deadline, two status queries
\* were made and at least ten seconds have passed.
C35_Witness ==
  /\ PollingWithDeadline /\ poll_interval < 0
  /\ polls = 2 /\ now >= 2 * DefaultPollInterval
  /\ job.status = "RUNNING"

====
